---- MODULE Spec2Model ----
(***************************************************************************)
(* The risk-decision engine of rug_algo_supreme.                           *)
(*                                                                         *)
(* BankrollManager (apps/analyzer/strategy/bankroll.py): the in-memory     *)
(* state dict of each manager, the bankroll file shared by the managers    *)
(* of one path, the calendar date, and one action per method.  Amounts are *)
(* integers (currency units); every ratio the code computes is an exact    *)
(* fraction <<numerator, denominator>>.  A Python exception is an outcome  *)
(* of the call: the "status" of the value it returns.  The stamp           *)
(* last_updated carries the date of datetime.now(); created_at, which      *)
(* nothing reads or changes after the dict is made, is left out.           *)
(*                                                                         *)
(* EVEngine (apps/analyzer/strategy/ev.py): the loaded EVConfig and one    *)
(* action per method.  Its floats are exact fractions in lowest terms.     *)
(*                                                                         *)
(* RegimeDetector (apps/analyzer/regime.py): the loaded RegimeConfig,      *)
(* detect_regime, and detect_regime_changes one window at a time.          *)
(*                                                                         *)
(* ThresholdTuner (apps/analyzer/tune_thresholds.py): self.results,        *)
(* self.pareto_optimal and the published thresholds; what the simulations  *)
(* of a sweep measure is an input.                                         *)
(***************************************************************************)
EXTENDS Integers, Sequences, FiniteSets, TLC

\* ------------------------------------------------------------- bounds
MaxUpdates == 3
MaxDay == 2
MaxRounds == 9
MaxResults == 3

\* ------------------------------------------------------------- inputs
Managers == {1, 2}
InitialBalances == {0, 10}
Results == {-3, 0, 2}
FewResults == {-3, 2}
NewBalances == {0, 2}
MaxDailyLossPcts == {20, 50}
KellyFractions == {<<1, 2>>, <<1, 1>>}
BetSizeCaps == {5, 50}
Edges == {<<-1, 10>>, <<0, 1>>, <<3, 10>>, <<6, 10>>, <<9, 10>>, <<1, 1>>, <<12, 10>>}
Odds == {<<1, 2>>, <<1, 1>>, <<3, 2>>, <<2, 1>>, <<4, 1>>}
FewEdges == {<<6, 10>>}
FewOdds == {<<2, 1>>}
Probabilities == {<<-5, 1>>, <<0, 1>>, <<1, 10>>, <<1, 4>>, <<1, 2>>, <<19, 20>>,
                  <<1, 1>>, <<5, 1>>}
FewProbabilities == {<<0, 1>>, <<11, 50>>, <<1, 2>>, <<1, 1>>}
Multipliers == {<<0, 1>>, <<1, 1>>, <<3, 2>>, <<2, 1>>, <<5, 1>>}
Bankrolls == {<<0, 1>>, <<100, 1>>, <<200, 1>>}
\* A round as the regime detector sees it: its volatility and slope_magnitude.
Calm == [volatility |-> <<1, 20>>, slope_magnitude |-> <<1, 50>>]
Hot == [volatility |-> <<2, 5>>, slope_magnitude |-> <<1, 5>>]
Levels == {Calm, Hot,
           [volatility |-> <<1, 10>>, slope_magnitude |-> <<1, 20>>],
           [volatility |-> <<3, 10>>, slope_magnitude |-> <<3, 20>>],
           [volatility |-> <<1, 20>>, slope_magnitude |-> <<1, 5>>],
           [volatility |-> <<1, 20>>, slope_magnitude |-> <<1, 10>>]}
FewLevels == {Calm, Hot}
ShortLengths == 0..3
\* What a simulation can measure: total_return, sharpe_ratio, max_drawdown.
Metrics ==
    {[total_return |-> <<1, 10>>, sharpe_ratio |-> <<1, 2>>, max_drawdown |-> <<1, 10>>],
     [total_return |-> <<1, 10>>, sharpe_ratio |-> <<1, 3>>, max_drawdown |-> <<0, 1>>],
     [total_return |-> <<0, 1>>, sharpe_ratio |-> <<1, 3>>, max_drawdown |-> <<1, 10>>],
     [total_return |-> <<1, 10>>, sharpe_ratio |-> <<1, 2>>, max_drawdown |-> <<0, 1>>]}

\* ---------------------------------------------------------- fractions
Num(r) == r[1]
Den(r) == r[2]
Zero == <<0, 1>>
RLt(a, b) == Num(a) * Den(b) < Num(b) * Den(a)
RLe(a, b) == Num(a) * Den(b) <= Num(b) * Den(a)
REq(a, b) == Num(a) * Den(b) = Num(b) * Den(a)
RSub(a, b) == <<Num(a) * Den(b) - Num(b) * Den(a), Den(a) * Den(b)>>
RMul(a, b) == <<Num(a) * Num(b), Den(a) * Den(b)>>
\* a / b for b # 0, the denominator kept positive
RDiv(a, b) ==
    IF Num(b) > 0 THEN <<Num(a) * Den(b), Den(a) * Num(b)>>
    ELSE <<-(Num(a) * Den(b)), -(Den(a) * Num(b))>>
RMin(a, b) == IF RLe(a, b) THEN a ELSE b
RMax(a, b) == IF RLe(b, a) THEN a ELSE b
Max(a, b) == IF a >= b THEN a ELSE b
Min(a, b) == IF a <= b THEN a ELSE b
Abs(a) == IF a < 0 THEN -a ELSE a

\* ------------------------------------------------------ the state dict
Keys == {"balance", "initial_balance", "daily_loss", "last_date", "total_bets",
         "wins", "losses", "total_profit", "max_balance", "min_balance",
         "last_updated"}
EmptyDict == [k \in {} |-> 0]
Has(d, k) == k \in DOMAIN d
\* d[k] = v, the key added when the dict does not hold it
Put(d, k, v) == [x \in (DOMAIN d) \cup {k} |-> IF x = k THEN v ELSE d[x]]
Without(d, ks) == [x \in (DOMAIN d) \ ks |-> d[x]]

\* The dict _load_state synthesizes and reset_bankroll assigns.
NewState(balance, day) ==
    [k \in Keys |->
        CASE k \in {"balance", "initial_balance", "max_balance", "min_balance"} -> balance
          [] k \in {"last_date", "last_updated"} -> day
          [] OTHER -> 0]

VARIABLES
    today,  \* the calendar date, date.today()
    file,   \* the bankroll file: [kind, rec]
    mgr,    \* per manager: the constructor's attributes and self.state
    ret,    \* the last call: [op, m, save, out], out what it returned
    hist,   \* history: the update_balance calls made, and whether a save failed
    engine,   \* the EVEngine: whether constructed, and self.config
    detector, \* the RegimeDetector: self.config and the run of detect_regime_changes
    tuner,    \* the ThresholdTuner: self.results, self.pareto_optimal, the results file
    datadir   \* the threshold files of data/ and the create_regime_symlink call under way

vars == <<today, file, mgr, ret, hist, engine, detector, tuner, datadir>>
\* what the calls of a BankrollManager leave alone
others == <<engine, detector, tuner, datadir>>
\* what belongs to the BankrollManager and its file
bank == <<today, file, mgr, hist>>

FileKinds == {"absent", "empty", "partial", "garbage", "nondict", "record"}
Absent == [kind |-> "absent", rec |-> EmptyDict]
NoManager ==
    [alive |-> FALSE, initial_balance |-> 0, kelly_fraction |-> Zero,
     max_daily_loss_pct |-> 0, bet_size_cap |-> Zero, state |-> EmptyDict,
     origin |-> "none"]

\* _load_state without the date check.
LoadStateNoRollover(f, day, initial_balance) ==
    IF f.kind = "record"
    THEN [origin |-> "loaded", state |-> f.rec]
    ELSE [origin |-> "fresh", state |-> NewState(initial_balance, day)]

\* _load_state zeroing daily_loss on every load, whatever the date.
LoadStateAlwaysResets(f, day, initial_balance) ==
    IF f.kind = "record"
    THEN [origin |-> "loaded",
          state |-> Put(Put(f.rec, "daily_loss", 0), "last_date", day)]
    ELSE [origin |-> "fresh", state |-> NewState(initial_balance, day)]

\* json.load of the file followed by the date check of _load_state; "fresh"
\* when the file is absent or anything raises inside the try block.
LoadState(f, day, initial_balance) ==
    IF f.kind = "record"
    THEN [origin |-> "loaded",
          state |-> IF Has(f.rec, "last_date") /\ f.rec["last_date"] = day
                    THEN f.rec
                    ELSE Put(Put(f.rec, "daily_loss", 0), "last_date", day)]
    ELSE [origin |-> "fresh", state |-> NewState(initial_balance, day)]

\* _save_state under one outcome of its file operations.  "ok": the file holds
\* the dict.  "makedirs_error": os.makedirs raised, the except clause swallowed
\* it, nothing was written.  "write_error": open(..., 'w') truncated the file and
\* json.dump raised part way.  "crash_truncated" / "crash_partial": the process
\* stopped after open(..., 'w') or inside json.dump.
SaveOutcomes == {"ok", "makedirs_error", "write_error", "crash_truncated", "crash_partial"}
Dump(st) == [kind |-> "record", rec |-> st]
\* _save_state creating the file but never replacing one that exists.
SaveStateOnce(st, f, outcome, day) ==
    LET stamped == Put(st, "last_updated", day) IN
    [state |-> stamped,
     file |-> IF outcome = "ok" /\ f.kind = "absent" THEN Dump(stamped) ELSE f,
     alive |-> TRUE]

SaveState(st, f, outcome, day) ==
    LET stamped == Put(st, "last_updated", day)
        cut(kind) == [kind |-> kind, rec |-> EmptyDict]
    IN  CASE outcome = "ok" ->
                [state |-> stamped, file |-> Dump(stamped), alive |-> TRUE]
          [] outcome = "makedirs_error" ->
                [state |-> st, file |-> f, alive |-> TRUE]
          [] outcome = "write_error" ->
                [state |-> stamped, file |-> cut("partial"), alive |-> TRUE]
          [] outcome = "crash_truncated" ->
                [state |-> stamped, file |-> cut("empty"), alive |-> FALSE]
          [] OTHER ->
                [state |-> stamped, file |-> cut("partial"), alive |-> FALSE]

\* size_bet without its final max(0.0, bet_size).
SizeBetValueUnclamped(edge, odds, kelly_fraction, bet_size_cap) ==
    IF RLe(edge, Zero) \/ RLe(<<1, 1>>, edge) \/ RLe(odds, <<1, 1>>)
    THEN Zero
    ELSE LET b == RSub(odds, <<1, 1>>)
             kelly_fraction_raw == RDiv(RSub(RMul(b, edge), RSub(<<1, 1>>, edge)), b)
         IN  RMin(RMul(kelly_fraction_raw, kelly_fraction), bet_size_cap)

\* size_bet: the capped fractional Kelly stake, edge and odds as fractions.
SizeBetValue(edge, odds, kelly_fraction, bet_size_cap) ==
    IF RLe(edge, Zero) \/ RLe(<<1, 1>>, edge) \/ RLe(odds, <<1, 1>>)
    THEN Zero
    ELSE LET b == RSub(odds, <<1, 1>>)
             p == edge
             q == RSub(<<1, 1>>, edge)
             kelly_fraction_raw == RDiv(RSub(RMul(b, p), q), b)
             kelly_fraction_actual == RMul(kelly_fraction_raw, kelly_fraction)
             bet_size == RMin(kelly_fraction_actual, bet_size_cap)
         IN  RMax(Zero, bet_size)

\* The tally of update_balance with a zero result counted neither as a win nor
\* as a loss.
WinsStepStrict(st, result) ==
    IF result > 0
    THEN [state |-> [st EXCEPT !["wins"] = @ + 1], raised |-> FALSE]
    ELSE IF result = 0 THEN [state |-> st, raised |-> FALSE]
    ELSE [state |-> [st EXCEPT !["losses"] = @ + 1,
                               !["daily_loss"] = @ + Abs(result)],
          raised |-> FALSE]

\* The assignments of update_balance up to the call of _save_state, stopping at
\* the first key the dict does not hold (KeyError) with what was assigned so far.
WinsStep(st, result) ==
    IF result > 0
    THEN IF Has(st, "wins")
         THEN [state |-> [st EXCEPT !["wins"] = @ + 1], raised |-> FALSE]
         ELSE [state |-> st, raised |-> TRUE]
    ELSE IF ~Has(st, "losses") THEN [state |-> st, raised |-> TRUE]
         ELSE LET s1 == [st EXCEPT !["losses"] = @ + 1] IN
              IF Has(s1, "daily_loss")
              THEN [state |-> [s1 EXCEPT !["daily_loss"] = @ + Abs(result)],
                    raised |-> FALSE]
              ELSE [state |-> s1, raised |-> TRUE]
ExtremaStep(st, new_balance) ==
    IF ~Has(st, "max_balance") THEN [state |-> st, raised |-> TRUE]
    ELSE LET s1 == [st EXCEPT !["max_balance"] = Max(@, new_balance)] IN
         IF Has(s1, "min_balance")
         THEN [state |-> [s1 EXCEPT !["min_balance"] = Min(@, new_balance)],
               raised |-> FALSE]
         ELSE [state |-> s1, raised |-> TRUE]
UpdateState(st, result) ==
    IF ~Has(st, "balance") THEN [state |-> st, raised |-> TRUE]
    ELSE LET s1 == [st EXCEPT !["balance"] = @ + result] IN
    IF ~Has(s1, "total_bets") THEN [state |-> s1, raised |-> TRUE]
    ELSE LET s2 == [s1 EXCEPT !["total_bets"] = @ + 1] IN
    IF ~Has(s2, "total_profit") THEN [state |-> s2, raised |-> TRUE]
    ELSE LET s3 == [s2 EXCEPT !["total_profit"] = @ + result]
             w == WinsStep(s3, result)
         IN  IF w.raised THEN w ELSE ExtremaStep(w.state, s1["balance"])

\* The dict update_balance returns, or the division by a zero initial_balance.
UpdateReturn(old, st, result, initial_balance) ==
    IF initial_balance = 0
    THEN [status |-> "ZeroDivisionError"]
    ELSE [status |-> "ok",
          old_balance |-> old,
          new_balance |-> st["balance"],
          profit |-> result,
          roi |-> IF old > 0 THEN <<result * 100, old>> ELSE Zero,
          total_roi |-> <<(st["balance"] - initial_balance) * 100, initial_balance>>,
          win_rate |-> IF st["total_bets"] > 0
                       THEN <<st["wins"] * 100, st["total_bets"]>> ELSE Zero]

\* apply_daily_loss_cap comparing the bare ratio, not the percentage.
DailyLossCapFraction(st, max_daily_loss_pct) ==
    IF ~Has(st, "balance") THEN [status |-> "KeyError"]
    ELSE IF st["balance"] <= 0 THEN [status |-> "ok", value |-> FALSE]
    ELSE IF ~Has(st, "daily_loss") THEN [status |-> "KeyError"]
    ELSE [status |-> "ok",
          value |-> RLt(<<st["daily_loss"], st["balance"]>>,
                        <<max_daily_loss_pct, 1>>)]

\* apply_daily_loss_cap on a state dict.
DailyLossCap(st, max_daily_loss_pct) ==
    IF ~Has(st, "balance") THEN [status |-> "KeyError"]
    ELSE IF st["balance"] <= 0 THEN [status |-> "ok", value |-> FALSE]
    ELSE IF ~Has(st, "daily_loss") THEN [status |-> "KeyError"]
    ELSE [status |-> "ok",
          value |-> RLt(<<st["daily_loss"] * 100, st["balance"]>>,
                        <<max_daily_loss_pct, 1>>)]

\* get_status on a state dict, its entries evaluated in the order written.
StatusValue(st, max_daily_loss_pct) ==
    IF ~Has(st, "balance") \/ ~Has(st, "initial_balance")
    THEN [status |-> "KeyError"]
    ELSE IF st["initial_balance"] = 0 THEN [status |-> "ZeroDivisionError"]
    ELSE IF \E k \in {"daily_loss", "total_bets", "wins", "losses",
                      "max_balance", "min_balance"} : ~Has(st, k)
    THEN [status |-> "KeyError"]
    ELSE [status |-> "ok",
          balance |-> st["balance"],
          initial_balance |-> st["initial_balance"],
          total_roi |-> <<(st["balance"] - st["initial_balance"]) * 100,
                          st["initial_balance"]>>,
          daily_loss |-> st["daily_loss"],
          daily_loss_pct |-> IF st["balance"] > 0
                             THEN <<st["daily_loss"] * 100, st["balance"]>> ELSE Zero,
          can_bet |-> DailyLossCap(st, max_daily_loss_pct).value,
          total_bets |-> st["total_bets"],
          wins |-> st["wins"],
          losses |-> st["losses"],
          max_balance |-> st["max_balance"],
          min_balance |-> st["min_balance"],
          max_drawdown |-> IF st["max_balance"] > 0
                           THEN <<(st["max_balance"] - st["balance"]) * 100,
                                  st["max_balance"]>>
                           ELSE Zero]

\* ------------------------------------------------- normalised fractions
\* The values of EVEngine run through 1e-6; products of two of them do not
\* fit the integers of the checker unless every fraction is kept in lowest
\* terms and sums are taken over the least common denominator.
RECURSIVE Gcd(_, _)
Gcd(a, b) == IF b = 0 THEN a ELSE Gcd(b, a % b)
QNorm(n, d) == LET g == Gcd(Abs(n), d) IN <<n \div g, d \div g>>
Lcm(a, b) == (a \div Gcd(a, b)) * b
QAdd(a, b) ==
    LET l == Lcm(Den(a), Den(b))
    IN  QNorm(Num(a) * (l \div Den(a)) + Num(b) * (l \div Den(b)), l)
QNeg(a) == <<-Num(a), Den(a)>>
QSub(a, b) == QAdd(a, QNeg(b))
QMul(a, b) ==
    LET g1 == Gcd(Abs(Num(a)), Den(b))
        g2 == Gcd(Abs(Num(b)), Den(a))
    IN  QNorm((Num(a) \div g1) * (Num(b) \div g2), (Den(a) \div g2) * (Den(b) \div g1))
QLt(a, b) ==
    LET l == Lcm(Den(a), Den(b))
    IN  Num(a) * (l \div Den(a)) < Num(b) * (l \div Den(b))
QLe(a, b) == ~QLt(b, a)
QMin(a, b) == IF QLt(b, a) THEN b ELSE a
QMax(a, b) == IF QLt(a, b) THEN b ELSE a
One == <<1, 1>>

\* ------------------------------------------------------------- EVEngine
\* EVConfig() with every field at its default.
DefaultEVConfig ==
    [cash_slippage_pct |-> <<1, 500>>,
     sidebet_payout |-> <<5, 1>>,
     sidebet_fee_pct |-> <<1, 50>>,
     cash_hold_dt_s |-> <<2, 1>>,
     future_gain_multiplier_if_survive |-> <<23, 20>>,
     safety_floor_x |-> <<51, 50>>,
     min_probability |-> <<1, 1000000>>,
     max_probability |-> <<999999, 1000000>>,
     default_stake_pct |-> <<1, 100>>,
     max_stake_pct |-> <<1, 20>>,
     ev_threshold |-> <<1, 1000>>]

\* The EVConfig the unit tests pass as cfg.
TestEVConfig ==
    [DefaultEVConfig EXCEPT
        !.cash_slippage_pct = <<1, 1000>>,
        !.sidebet_payout = <<4, 1>>,
        !.sidebet_fee_pct = <<1, 100>>,
        !.cash_hold_dt_s = <<1, 1>>,
        !.future_gain_multiplier_if_survive = <<11, 10>>,
        !.safety_floor_x = <<101, 100>>]

NoEngine == [alive |-> FALSE, config |-> DefaultEVConfig]

\* What the file at config_path can hold: nothing, text json.load rejects, an
\* object with a key EVConfig does not take, or an object overriding fields.
EVConfigFiles ==
    {[kind |-> "absent", fields |-> EmptyDict],
     [kind |-> "garbage", fields |-> EmptyDict],
     [kind |-> "unknown_key", fields |-> EmptyDict],
     [kind |-> "object", fields |-> EmptyDict],
     [kind |-> "object", fields |-> [k \in {"ev_threshold"} |-> <<-1, 1000>>]],
     [kind |-> "object", fields |-> [k \in {"ev_threshold", "safety_floor_x"} |->
                                        IF k = "ev_threshold" THEN <<-1, 1000>>
                                        ELSE <<0, 1>>]],
     [kind |-> "object", fields |-> [k \in {"min_probability", "max_probability"} |->
                                        IF k = "min_probability" THEN <<1, 100>>
                                        ELSE <<99, 100>>]]}

\* EVEngine._load_config: EVConfig(**config_dict), the defaults when the file
\* is missing or anything raises.
LoadConfig(f) ==
    IF f.kind = "object"
    THEN [k \in DOMAIN DefaultEVConfig |->
             IF k \in DOMAIN f.fields THEN f.fields[k] ELSE DefaultEVConfig[k]]
    ELSE DefaultEVConfig

\* The clamp with the lower bound only.
ClampProbabilityLowerOnly(p, config) == QMax(p, config.min_probability)

\* EVEngine._clamp_probability: np.clip(p, lo, hi) = minimum(maximum(p, lo), hi)
ClampProbability(p, config) ==
    QMin(QMax(p, config.min_probability), config.max_probability)

\* ev_cash_hold using the probability as passed.
EvCashHoldUnclamped(p_rug_5s, x, cfg, config) ==
    QAdd(QMul(QSub(One, p_rug_5s), QMul(x, cfg.future_gain_multiplier_if_survive)),
         QMul(p_rug_5s, cfg.safety_floor_x))

\* EVEngine.ev_cash_hold; the clamp reads self.config, the rest reads cfg
EvCashHold(p_rug_5s, x, cfg, config) ==
    LET p_rug == ClampProbability(p_rug_5s, config)
        p_survive == QSub(One, p_rug)
        future_x == QMul(x, cfg.future_gain_multiplier_if_survive)
        crash_x == cfg.safety_floor_x
    IN  QAdd(QMul(p_survive, future_x), QMul(p_rug, crash_x))

\* EVEngine.ev_cash_now
EvCashNow(x, cfg) == QMul(x, QSub(One, cfg.cash_slippage_pct))

\* EVEngine.ev_sidebet
EvSidebet(p_rug_10s, stake, cfg, config) ==
    LET p_rug == ClampProbability(p_rug_10s, config)
        win_amount == QMul(QMul(stake, QSub(cfg.sidebet_payout, One)),
                           QSub(One, cfg.sidebet_fee_pct))
        loss_amount == QNeg(stake)
    IN  QAdd(QMul(p_rug, win_amount), QMul(QSub(One, p_rug), loss_amount))

\* list.sort(key=lambda x: x[1], reverse=True): descending, and stable, equal
\* keys keeping the order they were appended in.
\* The insertion putting an element before the elements of equal key.
InsertDescLastFirst(s, a) ==
    LET n == Cardinality({i \in 1..Len(s) : QLt(a.ev, s[i].ev)})
    IN  SubSeq(s, 1, n) \o <<a>> \o SubSeq(s, n + 1, Len(s))

InsertDesc(s, a) ==
    LET n == Cardinality({i \in 1..Len(s) : QLe(a.ev, s[i].ev)})
    IN  SubSeq(s, 1, n) \o <<a>> \o SubSeq(s, n + 1, Len(s))
\* The sort without reverse=True: ascending.
RECURSIVE SortActionsAscending(_)
SortActionsAscending(s) ==
    IF s = <<>> THEN <<>>
    ELSE LET a == s[Len(s)]
             t == SortActionsAscending(SubSeq(s, 1, Len(s) - 1))
             n == Cardinality({i \in 1..Len(t) : QLe(t[i].ev, a.ev)})
         IN  SubSeq(t, 1, n) \o <<a>> \o SubSeq(t, n + 1, Len(t))

RECURSIVE SortActions(_)
SortActions(s) ==
    IF s = <<>> THEN <<>>
    ELSE InsertDesc(SortActions(SubSeq(s, 1, Len(s) - 1)), s[Len(s)])

\* The confidence without its bounds.
ConfidenceUnclamped(ev_delta) == QAdd(<<1, 2>>, QMul(ev_delta, <<10, 1>>))

\* min(0.95, max(0.05, 0.5 + ev_delta * 10))
Confidence(ev_delta) ==
    QMin(<<19, 20>>, QMax(<<1, 20>>, QAdd(<<1, 2>>, QMul(ev_delta, <<10, 1>>))))

\* best_action never proposing the sidebet.
CandidatesNoSidebet(ev_hold_vs_cash, ev_sidebet_vs_cash, cfg) ==
    <<[name |-> "HOLD", ev |-> ev_hold_vs_cash],
      [name |-> "CASH", ev |-> Zero]>>

\* best_action appending CASH before HOLD.
CandidatesCashFirst(ev_hold_vs_cash, ev_sidebet_vs_cash, cfg) ==
    <<[name |-> "CASH", ev |-> Zero],
      [name |-> "HOLD", ev |-> ev_hold_vs_cash]>>
    \o (IF QLt(cfg.ev_threshold, ev_sidebet_vs_cash)
        THEN <<[name |-> "ARM_SIDEBET", ev |-> ev_sidebet_vs_cash]>>
        ELSE <<>>)

\* The candidates best_action appends, in the order it appends them.
Candidates(ev_hold_vs_cash, ev_sidebet_vs_cash, cfg) ==
    <<[name |-> "HOLD", ev |-> ev_hold_vs_cash],
      [name |-> "CASH", ev |-> Zero]>>
    \o (IF QLt(cfg.ev_threshold, ev_sidebet_vs_cash)
        THEN <<[name |-> "ARM_SIDEBET", ev |-> ev_sidebet_vs_cash]>>
        ELSE <<>>)

\* EVEngine.best_action(p5, p10, x, bankroll, cfg); config is self.config
BestAction(p5, p10, x, bankroll, cfg, config) ==
    LET p5c == ClampProbability(p5, config)
        p10c == ClampProbability(p10, config)
        ev_hold == EvCashHold(p5c, x, cfg, config)
        ev_cash == EvCashNow(x, cfg)
        ev_sidebet == EvSidebet(p10c, QMul(bankroll, cfg.default_stake_pct), cfg, config)
        ev_hold_vs_cash == QSub(ev_hold, ev_cash)
        proposed == Candidates(ev_hold_vs_cash, ev_sidebet, cfg)
        actions == SortActions(proposed)
        best_ev == actions[1].ev
        second_best_ev == IF Len(actions) > 1 THEN actions[2].ev ELSE Zero
    IN  [status |-> "ok",
         action |-> actions[1].name,
         evs |-> [n \in {proposed[i].name : i \in 1..Len(proposed)} |->
                     proposed[CHOOSE i \in 1..Len(proposed) : proposed[i].name = n].ev],
         rationale |-> CASE actions[1].name = "HOLD" ->
                                IF QLt(Zero, ev_hold_vs_cash) THEN "Hold: Expected gain"
                                ELSE "Hold: Minimal loss"
                         [] actions[1].name = "CASH" -> "Cash: Secure"
                         [] OTHER -> "Sidebet: Positive EV",
         confidence |-> Confidence(QSub(best_ev, second_best_ev))]

\* ------------------------------------------------------- RegimeDetector
\* RegimeConfig() with every field at its default.
DefaultRegimeConfig ==
    [lookback_rounds |-> 200,
     vol_low_threshold |-> <<1, 10>>,
     vol_high_threshold |-> <<3, 10>>,
     slope_low_threshold |-> <<1, 20>>,
     slope_high_threshold |-> <<3, 20>>,
     min_rounds_per_regime |-> 50]

\* What the file at config_path can hold: nothing, or an object overriding
\* min_rounds_per_regime.
RegimeConfigFiles ==
    {[kind |-> "absent", fields |-> EmptyDict],
     [kind |-> "garbage", fields |-> EmptyDict],
     [kind |-> "object", fields |-> [k \in {"min_rounds_per_regime"} |-> 2]],
     [kind |-> "object", fields |-> [k \in {"min_rounds_per_regime"} |-> 3]]}

\* RegimeDetector._load_config
LoadRegimeConfig(f) ==
    IF f.kind = "object"
    THEN [k \in DOMAIN DefaultRegimeConfig |->
             IF k \in DOMAIN f.fields THEN f.fields[k] ELSE DefaultRegimeConfig[k]]
    ELSE DefaultRegimeConfig

\* The rounds of a history as load_recent_data returns them, newest first:
\* the round of levels[k] has id and started_at Len(levels) - k + 1.
History(levels) ==
    [k \in 1..Len(levels) |->
        [id |-> Len(levels) - k + 1, started_at |-> Len(levels) - k + 1,
         volatility |-> levels[k].volatility,
         slope_magnitude |-> levels[k].slope_magnitude]]
Histories(levels, lengths) ==
    {History(l) : l \in UNION {[1..n -> levels] : n \in lengths}}

\* data[column].mean() of a frame with rows
RECURSIVE SumOf(_, _)
SumOf(data, column) ==
    IF data = <<>> THEN Zero
    ELSE QAdd(data[1][column], SumOf(Tail(data), column))
Mean(data, column) == QMul(SumOf(data, column), <<1, Len(data)>>)

\* detect_regime with the two tests of the high regime joined by "and".
DetectRegimeBothHigh(data, config) ==
    IF Len(data) < config.min_rounds_per_regime THEN "normal"
    ELSE LET avg_vol == Mean(data, "volatility")
             avg_slope == Mean(data, "slope_magnitude")
         IN  IF QLt(avg_vol, config.vol_low_threshold)
                /\ QLt(avg_slope, config.slope_low_threshold) THEN "low_vol"
             ELSE IF QLt(config.vol_high_threshold, avg_vol)
                     /\ QLt(config.slope_high_threshold, avg_slope) THEN "high_vol"
             ELSE "normal"

\* RegimeDetector.detect_regime(data)
DetectRegime(data, config) ==
    IF Len(data) < config.min_rounds_per_regime THEN "normal"
    ELSE LET avg_vol == Mean(data, "volatility")
             avg_slope == Mean(data, "slope_magnitude")
         IN  IF QLt(avg_vol, config.vol_low_threshold)
                /\ QLt(avg_slope, config.slope_low_threshold) THEN "low_vol"
             ELSE IF QLt(config.vol_high_threshold, avg_vol)
                     \/ QLt(config.slope_high_threshold, avg_slope) THEN "high_vol"
             ELSE "normal"

\* data.sort_values('started_at').reset_index(drop=True)
RECURSIVE SortByStart(_)
SortByStart(data) ==
    IF data = <<>> THEN <<>>
    ELSE LET a == data[Len(data)]
             t == SortByStart(SubSeq(data, 1, Len(data) - 1))
             n == Cardinality({i \in 1..Len(t) : t[i].started_at <= a.started_at})
         IN  SubSeq(t, 1, n) \o <<a>> \o SubSeq(t, n + 1, Len(t))

\* data.iloc[from:to], positions counted from 0, to excluded
Rows(data, from, to) == SubSeq(data, from + 1, to)

\* The RegimeInfo of the rounds data.iloc[from:to]; the standard deviations
\* and detected_at are left out.
\* The segment counting the round at position to as well.
RegimeInfoOfInclusive(regime, data, from, to) ==
    [regime |-> regime,
     start_round |-> data[from + 1].id,
     end_round |-> data[to].id,
     round_count |-> to - from + 1,
     avg_volatility |-> Mean(Rows(data, from, to), "volatility"),
     avg_slope |-> Mean(Rows(data, from, to), "slope_magnitude")]

RegimeInfoOf(regime, data, from, to) ==
    [regime |-> regime,
     start_round |-> data[from + 1].id,
     end_round |-> data[to].id,
     round_count |-> to - from,
     avg_volatility |-> Mean(Rows(data, from, to), "volatility"),
     avg_slope |-> Mean(Rows(data, from, to), "slope_magnitude")]

NoRun == [pc |-> "idle", data |-> <<>>, window_size |-> 0, i |-> 0,
          current_regime |-> "None", regime_start |-> 0, regimes |-> <<>>]
NoDetector == [alive |-> FALSE, config |-> DefaultRegimeConfig, run |-> NoRun]
\* ------------------------------------------------------- ThresholdTuner
\* self.cash_thresholds and self.sidebet_thresholds, the grid of the sweep
CashThresholds ==
    <<<<3, 20>>, <<1, 5>>, <<1, 4>>, <<3, 10>>, <<7, 20>>, <<2, 5>>, <<9, 20>>, <<1, 2>>>>
SidebetThresholds ==
    <<<<1, 4>>, <<3, 10>>, <<7, 20>>, <<2, 5>>, <<9, 20>>, <<1, 2>>, <<11, 20>>, <<3, 5>>>>

\* The k-th pair the sweep tests: cash thresholds outside, sidebet inside.
GridPair(k) ==
    [cash_threshold |-> CashThresholds[1 + ((k - 1) \div Len(SidebetThresholds))],
     sidebet_threshold |-> SidebetThresholds[1 + ((k - 1) % Len(SidebetThresholds))]]

\* The dict simulate_with_thresholds returns for the k-th pair, m what the
\* simulation measured; trades_count and final_bankroll are left out.
SweepResult(k, m) ==
    [cash_threshold |-> GridPair(k).cash_threshold,
     sidebet_threshold |-> GridPair(k).sidebet_threshold,
     total_return |-> m.total_return,
     sharpe_ratio |-> m.sharpe_ratio,
     max_drawdown |-> m.max_drawdown,
     prob_ruin |-> QMax(Zero, QMin(One, QMul(m.max_drawdown, <<2, 1>>)))]

\* The results of a sweep in which the first n pairs of the grid traded and
\* the others returned None.
ResultLists(lengths) ==
    UNION {{[k \in 1..n |-> SweepResult(k, ms[k])] : ms \in [1..n -> Metrics]} :
              n \in lengths}

\* The test of find_pareto_optimal asking more than the other on every
\* objective.
DominatesStrictly(other, result) ==
    /\ QLt(result.total_return, other.total_return)
    /\ QLt(result.sharpe_ratio, other.sharpe_ratio)
    /\ QLt(other.max_drawdown, result.max_drawdown)

\* The test inside find_pareto_optimal: other dominates result.
Dominates(other, result) ==
    /\ QLe(result.total_return, other.total_return)
    /\ QLe(result.sharpe_ratio, other.sharpe_ratio)
    /\ QLe(other.max_drawdown, result.max_drawdown)
    /\ \/ QLt(result.total_return, other.total_return)
       \/ QLt(result.sharpe_ratio, other.sharpe_ratio)
       \/ QLt(other.max_drawdown, result.max_drawdown)

\* pareto.sort(key=lambda x: x['sharpe_ratio'], reverse=True): descending and
\* stable.
RECURSIVE SortBySharpe(_)
SortBySharpe(rs) ==
    IF rs = <<>> THEN <<>>
    ELSE LET a == rs[Len(rs)]
             t == SortBySharpe(SubSeq(rs, 1, Len(rs) - 1))
             n == Cardinality({i \in 1..Len(t) : QLe(a.sharpe_ratio, t[i].sharpe_ratio)})
         IN  SubSeq(t, 1, n) \o <<a>> \o SubSeq(t, n + 1, Len(t))

\* The results no other result dominates, in the order of the list.
RECURSIVE NonDominated(_, _)
NonDominated(rs, results) ==
    IF rs = <<>> THEN <<>>
    ELSE (IF \E o \in 1..Len(results) : Dominates(results[o], Head(rs))
          THEN <<>> ELSE <<Head(rs)>>) \o NonDominated(Tail(rs), results)

\* ThresholdTuner.find_pareto_optimal(results)
FindParetoOptimal(results) == SortBySharpe(NonDominated(results, results))

\* round(v, places): the nearest multiple of 10^-places, a tie to the even one
Round(v, places) ==
    LET scale == IF places = 3 THEN 1000 ELSE 10000
        t == Num(v) * scale
        n == t \div Den(v)
        r == t % Den(v)
    IN  QNorm(IF 2 * r < Den(v) THEN n
              ELSE IF 2 * r > Den(v) THEN n + 1
              ELSE IF n % 2 = 0 THEN n ELSE n + 1, scale)

\* save_results publishing the entry at the end of the frontier.
ThresholdsOfLast(pareto_optimal, results) ==
    LET best == pareto_optimal[Len(pareto_optimal)]
    IN  [cash_if_p5_gt |-> Round(best.cash_threshold, 3),
         sidebet_if_p10_gt |-> Round(best.sidebet_threshold, 3),
         min_confidence |-> <<11, 20>>,
         regime |-> "default",
         rounds_used |-> Len(results),
         metrics |-> [total_return |-> Round(best.total_return, 4),
                      sharpe_ratio |-> Round(best.sharpe_ratio, 4),
                      max_drawdown |-> Round(best.max_drawdown, 4),
                      prob_ruin |-> Round(best.prob_ruin, 4)]]

\* The thresholds dict save_results writes to data/thresholds.json; trained_at
\* is left out.
Thresholds(pareto_optimal, results) ==
    LET best == pareto_optimal[1]
    IN  [cash_if_p5_gt |-> Round(best.cash_threshold, 3),
         sidebet_if_p10_gt |-> Round(best.sidebet_threshold, 3),
         min_confidence |-> <<11, 20>>,
         regime |-> "default",
         rounds_used |-> Len(results),
         metrics |-> [total_return |-> Round(best.total_return, 4),
                      sharpe_ratio |-> Round(best.sharpe_ratio, 4),
                      max_drawdown |-> Round(best.max_drawdown, 4),
                      prob_ruin |-> Round(best.prob_ruin, 4)]]

\* ------------------------------------- simulate_with_thresholds
\* A tick of features_df: phase, ts, x, and the slope and volatility
\* engineer_features computed.  The ticks of a round are stored newest first.
Quiet == [phase |-> "live", x |-> <<1, 1>>, volatility |-> Zero, slope |-> Zero]
Rising == [phase |-> "live", x |-> <<2, 1>>, volatility |-> <<1, 10>>, slope |-> <<-1, 1>>]
Wild == [phase |-> "live", x |-> <<2, 1>>, volatility |-> <<1, 2>>, slope |-> <<1, 1>>]
Waiting == [phase |-> "waiting", x |-> <<1, 1>>, volatility |-> Zero, slope |-> Zero]
TickKinds == {Quiet, Rising, Wild, Waiting}
RoundTicks(kinds, round_id) ==
    [k \in 1..Len(kinds) |->
        [round_id |-> round_id, ts |-> Len(kinds) - k + 1, phase |-> kinds[k].phase,
         x |-> kinds[k].x, volatility |-> kinds[k].volatility, slope |-> kinds[k].slope]]
\* features_df as the list of its rounds' ticks: one or two rounds of one or
\* two ticks.
Features ==
    LET rounds(id) == UNION {{RoundTicks(kinds, id) : kinds \in [1..n -> TickKinds]} : n \in 1..2}
    IN  {<<r>> : r \in rounds(1)} \cup {<<r1, r2>> : r1 \in rounds(1), r2 \in rounds(2)}
\* The pairs of the grid simulated: its four corners.
SimulatedPairs == {GridPair(1), GridPair(8), GridPair(57), GridPair(64)}

QAbs(a) == IF Num(a) < 0 THEN QNeg(a) ELSE a
QDiv(a, b) == QMul(a, <<Den(b), Num(b)>>)

\* round_ticks: the live ticks of a round, sort_values('ts')
RECURSIVE SortByTs(_)
SortByTs(ticks) ==
    IF ticks = <<>> THEN <<>>
    ELSE LET a == ticks[Len(ticks)]
             t == SortByTs(SubSeq(ticks, 1, Len(ticks) - 1))
             n == Cardinality({i \in 1..Len(t) : t[i].ts <= a.ts})
         IN  SubSeq(t, 1, n) \o <<a>> \o SubSeq(t, n + 1, Len(t))
LiveTicks(ticks) == SelectSeq(ticks, LAMBDA t : t.phase = "live")
\* The rounds of live_ticks['round_id'].unique(), each with its live ticks by ts.
LiveRounds(features_df) ==
    LET live == [k \in 1..Len(features_df) |-> SortByTs(LiveTicks(features_df[k]))]
    IN  SelectSeq(live, LAMBDA r : r # <<>>)

\* The mock predictions of a tick.
PRug5s(tick) ==
    QMin(<<9, 10>>, QMax(<<1, 10>>, QAdd(QMul(tick.volatility, <<2, 1>>),
                                         QMul(QAbs(tick.slope), <<1, 10>>))))
PRug10s(p_rug_5s) == QMin(<<19, 20>>, QMax(<<3, 20>>, QMul(p_rug_5s, <<6, 5>>)))

\* The threshold rules arming the sidebet on the threshold alone.
SimulatedActionThresholdOnly(p_rug_5s, p_rug_10s, ev_action, cash_threshold, sidebet_threshold) ==
    IF QLt(cash_threshold, p_rug_5s) THEN "CASH"
    ELSE IF QLt(sidebet_threshold, p_rug_10s) THEN "ARM_SIDEBET"
    ELSE "HOLD"

\* The threshold-based rules of simulate_with_thresholds.
SimulatedAction(p_rug_5s, p_rug_10s, ev_action, cash_threshold, sidebet_threshold) ==
    IF QLt(cash_threshold, p_rug_5s) THEN "CASH"
    ELSE IF QLt(sidebet_threshold, p_rug_10s) /\ ev_action = "ARM_SIDEBET" THEN "ARM_SIDEBET"
    ELSE "HOLD"

\* initial_bankroll of a simulation
InitialBankroll == <<1000, 1>>
\* self.bankroll_manager.size_bet(0.1, 4.0), the manager built with its defaults
MockStake == SizeBetValue(<<1, 10>>, <<4, 1>>, <<1, 2>>, <<5, 1>>)

\* max_drawdown over [initial_bankroll] and the bankrolls of the trades.
RECURSIVE MaxDrawdown(_, _, _)
MaxDrawdown(bankrolls, k, peak) ==
    IF k > Len(bankrolls) THEN Zero
    ELSE LET pk == QMax(peak, bankrolls[k])
         IN  QMax(QDiv(QSub(pk, bankrolls[k]), pk), MaxDrawdown(bankrolls, k + 1, pk))

\* The dict simulate_with_thresholds returns.  The Sharpe ratio is 0 when
\* the profits have no spread; otherwise it is mean / (std + 1e-6), which is
\* not a fraction and is carried unevaluated.
SimulationResult(sim) ==
    LET returns == {sim.trades[k].profit : k \in {j \in 1..Len(sim.trades) :
                                                    sim.trades[j].action = "CASH"}}
        bankrolls == <<InitialBankroll>>
                     \o [k \in 1..Len(SelectSeq(sim.trades, LAMBDA t : t.action = "CASH")) |->
                            SelectSeq(sim.trades, LAMBDA t : t.action = "CASH")[k].bankroll]
        max_drawdown == IF Len(bankrolls) > 1 THEN MaxDrawdown(bankrolls, 1, bankrolls[1])
                        ELSE Zero
    IN  [cash_threshold |-> sim.cash_threshold,
         sidebet_threshold |-> sim.sidebet_threshold,
         total_return |-> QDiv(QSub(sim.current_bankroll, InitialBankroll), InitialBankroll),
         sharpe_ratio |-> IF Cardinality(returns) <= 1 THEN "0" ELSE "mean / (std + 1e-6)",
         max_drawdown |-> max_drawdown,
         prob_ruin |-> QMax(Zero, QMin(One, QMul(max_drawdown, <<2, 1>>))),
         trades_count |-> Len(sim.trades),
         final_bankroll |-> sim.current_bankroll]

NoSim == [pc |-> "idle", rounds |-> <<>>, round |-> 0, tick |-> 0,
          cash_threshold |-> Zero, sidebet_threshold |-> Zero,
          current_bankroll |-> Zero, trades |-> <<>>, decided |-> <<>>]

NoTuner == [alive |-> FALSE, results |-> <<>>, pareto_optimal |-> <<>>,
            results_file |-> "absent", ev_config |-> DefaultEVConfig, sim |-> NoSim]

\* ------------------------------------------------------------ data/
\* The threshold files of data/, by path: a path is a sequence of names, and
\* a path the directory tree does not hold is not in the domain.  A file is a
\* JSON record or a symbolic link carrying the text it was created with.
\* RegimeFile(regime) stands for data/thresholds_{regime}.json.
Regimes == {"low_vol", "normal", "high_vol"}
RegimeFile(regime) == <<"data", regime>>
ActiveFile == <<"data", "thresholds.json">>
Directories == {<<"data">>}
DirName(path) == SubSeq(path, 1, Len(path) - 1)

\* The path a link refers to: its text, relative to the directory of the link.
LinkTarget(fs, path) == DirName(path) \o fs[path].to
LExists(fs, path) == \E q \in DOMAIN fs : q = path
IsLink(fs, path) == LExists(fs, path) /\ fs[path].kind = "symlink"
Resolve(fs, path) == IF IsLink(fs, path) THEN LinkTarget(fs, path) ELSE path
\* os.path.exists(path): follows the link
Exists(fs, path) == LExists(fs, Resolve(fs, path))
\* open(path, 'w') and json.dump: through a link, into an existing directory
Writable(fs, path) == DirName(Resolve(fs, path)) \in Directories
WriteJson(fs, path, rec) == Put(fs, Resolve(fs, path), [kind |-> "record", rec |-> rec])

\* The thresholds main() of regime.py saves for a regime that has no file.
DefaultThresholds(regime) ==
    [cash_if_p5_gt |-> IF regime = "low_vol" THEN <<1, 4>>
                       ELSE IF regime = "normal" THEN <<3, 10>> ELSE <<7, 20>>,
     sidebet_if_p10_gt |-> IF regime = "low_vol" THEN <<7, 20>>
                           ELSE IF regime = "normal" THEN <<2, 5>> ELSE <<9, 20>>,
     min_confidence |-> <<11, 20>>,
     regime |-> regime,
     rounds_used |-> 0,
     metrics |-> [total_return |-> Zero, sharpe_ratio |-> Zero,
                  max_drawdown |-> Zero, prob_ruin |-> Zero]]

\* datadir: the files, and where a create_regime_symlink call stands
NoData == [fs |-> [q \in {} |-> 0], pc |-> "idle", target_regime |-> "None",
           aliased |-> FALSE]

\* ------------------------------------------------------------ actions
Call(op, m, save, out) == [op |-> op, m |-> m, save |-> save, out |-> out]
Ok == [status |-> "ok"]

Init ==
    /\ today = 1
    /\ file = Absent
    /\ mgr = [m \in Managers |-> NoManager]
    /\ ret = Call("none", 0, "none", Ok)
    /\ hist = [updates |-> 0, failed |-> FALSE]
    /\ engine = NoEngine
    /\ detector = NoDetector
    /\ tuner = NoTuner
    /\ datadir = NoData

\* BankrollManager.__init__
Construct(m, initial_balance, kelly_fraction, max_daily_loss_pct, bet_size_cap) ==
    /\ LET l == LoadState(file, today, initial_balance) IN
       mgr' = [mgr EXCEPT ![m] =
                 [alive |-> TRUE,
                  initial_balance |-> initial_balance,
                  kelly_fraction |-> kelly_fraction,
                  max_daily_loss_pct |-> max_daily_loss_pct,
                  bet_size_cap |-> <<bet_size_cap, 100>>,
                  state |-> l.state,
                  origin |-> l.origin]]
    /\ ret' = Call("construct", m, "none", Ok)
    /\ UNCHANGED <<today, file, hist, others>>

\* What a call leaves once it has assigned st to self.state and called
\* _save_state: the manager is gone when the process stopped inside the save.
Saved(m, st, origin, outcome) ==
    LET s == SaveState(st, file, outcome, today) IN
    /\ mgr' = [mgr EXCEPT ![m] =
                 IF s.alive THEN [@ EXCEPT !.state = s.state, !.origin = origin]
                 ELSE NoManager]
    /\ file' = s.file

Crashed(outcome) == outcome \in {"crash_truncated", "crash_partial"}

\* BankrollManager.update_balance(bet_amount, result)
UpdateBalance(m, result, outcome) ==
    /\ mgr[m].alive
    /\ hist.updates < MaxUpdates
    /\ hist' = [hist EXCEPT !.updates = @ + 1,
                            !.failed = @ \/ outcome # "ok"]
    /\ LET st == mgr[m].state
           u == UpdateState(st, result)
       IN  IF u.raised
           THEN /\ outcome = "ok"
                /\ mgr' = [mgr EXCEPT ![m].state = u.state]
                /\ ret' = Call("update_balance", m, "none", [status |-> "KeyError"])
                /\ UNCHANGED file
           ELSE /\ Saved(m, u.state, mgr[m].origin, outcome)
                /\ ret' = Call("update_balance", m, outcome,
                               IF Crashed(outcome) THEN [status |-> "crashed"]
                               ELSE UpdateReturn(st["balance"], u.state, result,
                                                 mgr[m].initial_balance))
    /\ UNCHANGED <<today, others>>

\* BankrollManager.size_bet(edge, odds)
SizeBet(m, edge, odds) ==
    /\ mgr[m].alive
    /\ ret' = Call("size_bet", m, "none",
                   [status |-> "ok", edge |-> edge, odds |-> odds,
                    value |-> SizeBetValue(edge, odds, mgr[m].kelly_fraction,
                                           mgr[m].bet_size_cap)])
    /\ UNCHANGED <<today, file, mgr, hist, others>>

\* BankrollManager.calculate_bet_amount(edge, odds)
CalculateBetAmount(m, edge, odds) ==
    /\ mgr[m].alive
    /\ LET bet_size_pct == SizeBetValue(edge, odds, mgr[m].kelly_fraction,
                                        mgr[m].bet_size_cap)
       IN  ret' = Call("calculate_bet_amount", m, "none",
                       IF Has(mgr[m].state, "balance")
                       THEN [status |-> "ok",
                             value |-> RMul(<<mgr[m].state["balance"], 1>>,
                                            bet_size_pct)]
                       ELSE [status |-> "KeyError"])
    /\ UNCHANGED <<today, file, mgr, hist, others>>

\* BankrollManager.apply_daily_loss_cap()
ApplyDailyLossCap(m) ==
    /\ mgr[m].alive
    /\ ret' = Call("apply_daily_loss_cap", m, "none",
                   DailyLossCap(mgr[m].state, mgr[m].max_daily_loss_pct))
    /\ UNCHANGED <<today, file, mgr, hist, others>>

\* get_status applying the day rollover to self.state before it reports.
GetStatusRollover(m) ==
    /\ mgr[m].alive
    /\ mgr' = [mgr EXCEPT ![m].state =
                 IF Has(@, "last_date") /\ @["last_date"] = today THEN @
                 ELSE Put(Put(@, "daily_loss", 0), "last_date", today)]
    /\ ret' = Call("get_status", m, "none",
                   StatusValue(mgr'[m].state, mgr[m].max_daily_loss_pct))
    /\ UNCHANGED <<today, file, hist, others>>

\* BankrollManager.get_status()
GetStatus(m) ==
    /\ mgr[m].alive
    /\ ret' = Call("get_status", m, "none",
                   StatusValue(mgr[m].state, mgr[m].max_daily_loss_pct))
    /\ UNCHANGED <<today, file, mgr, hist, others>>

\* BankrollManager.reset_daily_tracking()
ResetDailyTracking(m, outcome) ==
    /\ mgr[m].alive
    /\ Saved(m, Put(Put(mgr[m].state, "daily_loss", 0), "last_date", today),
             mgr[m].origin, outcome)
    /\ ret' = Call("reset_daily_tracking", m, outcome,
                   [status |-> IF Crashed(outcome) THEN "crashed" ELSE "ok"])
    /\ hist' = [hist EXCEPT !.failed = @ \/ outcome # "ok"]
    /\ UNCHANGED <<today, others>>

\* BankrollManager.reset_bankroll(new_balance); use_default is new_balance=None
ResetBankroll(m, use_default, new_balance, outcome) ==
    /\ mgr[m].alive
    /\ LET nb == IF use_default THEN mgr[m].initial_balance ELSE new_balance
       IN  Saved(m, NewState(nb, today), "fresh", outcome)
    /\ ret' = Call("reset_bankroll", m, outcome,
                   [status |-> IF Crashed(outcome) THEN "crashed" ELSE "ok"])
    /\ hist' = [hist EXCEPT !.failed = @ \/ outcome # "ok"]
    /\ UNCHANGED <<today, others>>

\* The calendar date rolls over.
AdvanceDay ==
    /\ today < MaxDay
    /\ today' = today + 1
    /\ ret' = Call("advance_day", 0, "none", Ok)
    /\ UNCHANGED <<file, mgr, hist, others>>

\* Something else leaves a malformed record in the bankroll file: text that is
\* no JSON, JSON that is no object, or an object without some of the fields.
MissingFields == {{"balance"}, {"daily_loss"}, {"total_bets"}, {"min_balance"}, Keys}
Tamper(kind, missing) ==
    /\ file.kind = "absent" \/ (file.kind = "record" /\ DOMAIN file.rec = Keys)
    /\ file' = IF kind = "record"
               THEN [kind |-> "record",
                     rec |-> Without(IF file.kind = "record" THEN file.rec
                                     ELSE NewState(10, today), missing)]
               ELSE [kind |-> kind, rec |-> EmptyDict]
    /\ ret' = Call("tamper", 0, "none", Ok)
    /\ UNCHANGED <<today, mgr, hist, others>>

\* EVEngine.__init__(config_path), f what the file at config_path holds
ConstructEngine(f) ==
    /\ ~engine.alive
    /\ engine' = [alive |-> TRUE, config |-> LoadConfig(f)]
    /\ ret' = Call("EVEngine", 0, "none", Ok)
    /\ UNCHANGED <<bank, detector, tuner, datadir>>

\* The engine keeps nothing between calls: each behaviour makes one call on the
\* engine it constructed.
EngineReady == engine.alive /\ ret.op = "EVEngine"

\* The cfg argument: None (self.config is used) or the EVConfig of the tests.
CfgArgs == {"None", "test_config"}
CfgOf(arg) == IF arg = "None" THEN engine.config ELSE TestEVConfig

\* EVEngine._clamp_probability(p)
CallClampProbability(p) ==
    /\ EngineReady
    /\ ret' = Call("_clamp_probability", 0, "none",
                   [status |-> "ok", p |-> p,
                    value |-> ClampProbability(p, engine.config)])
    /\ UNCHANGED <<bank, others>>

\* EVEngine.ev_cash_hold(p_rug_5s, x, cfg)
CallEvCashHold(p_rug_5s, x, arg) ==
    /\ EngineReady
    /\ ret' = Call("ev_cash_hold", 0, "none",
                   [status |-> "ok", p_rug_5s |-> p_rug_5s, x |-> x, cfg |-> arg,
                    value |-> EvCashHold(p_rug_5s, x, CfgOf(arg), engine.config)])
    /\ UNCHANGED <<bank, others>>

\* EVEngine.ev_cash_now(x, cfg)
CallEvCashNow(x, arg) ==
    /\ EngineReady
    /\ ret' = Call("ev_cash_now", 0, "none",
                   [status |-> "ok", x |-> x, cfg |-> arg,
                    value |-> EvCashNow(x, CfgOf(arg))])
    /\ UNCHANGED <<bank, others>>

\* EVEngine.ev_sidebet(p_rug_10s, stake, cfg)
CallEvSidebet(p_rug_10s, stake, arg) ==
    /\ EngineReady
    /\ ret' = Call("ev_sidebet", 0, "none",
                   [status |-> "ok", p_rug_10s |-> p_rug_10s, stake |-> stake,
                    cfg |-> arg,
                    value |-> EvSidebet(p_rug_10s, stake, CfgOf(arg), engine.config)])
    /\ UNCHANGED <<bank, others>>

\* EVEngine.best_action(p5, p10, x, bankroll, cfg)
CallBestAction(p5, p10, x, bankroll, arg) ==
    /\ EngineReady
    /\ ret' = Call("best_action", 0, "none",
                   [p5 |-> p5, p10 |-> p10, x |-> x, bankroll |-> bankroll,
                    cfg |-> arg]
                   @@ BestAction(p5, p10, x, bankroll, CfgOf(arg), engine.config))
    /\ UNCHANGED <<bank, others>>

\* EVEngine.get_all_evs(p5, p10, x, bankroll, cfg)
CallGetAllEvs(p5, p10, x, bankroll, arg) ==
    /\ EngineReady
    /\ LET cfg == CfgOf(arg)
           ev_hold == EvCashHold(p5, x, cfg, engine.config)
           ev_cash_now == EvCashNow(x, cfg)
       IN  ret' = Call("get_all_evs", 0, "none",
                       [status |-> "ok", p5 |-> p5, p10 |-> p10, x |-> x,
                        bankroll |-> bankroll, cfg |-> arg,
                        ev_hold |-> ev_hold,
                        ev_cash_now |-> ev_cash_now,
                        ev_sidebet |-> EvSidebet(p10, QMul(bankroll, cfg.default_stake_pct),
                                                 cfg, engine.config),
                        ev_hold_vs_cash |-> QSub(ev_hold, ev_cash_now)])
    /\ UNCHANGED <<bank, others>>

\* RegimeDetector.__init__(config_path), f what the file at config_path holds
ConstructDetector(f) ==
    /\ ~detector.alive
    /\ detector' = [alive |-> TRUE, config |-> LoadRegimeConfig(f), run |-> NoRun]
    /\ ret' = Call("RegimeDetector", 0, "none", Ok)
    /\ UNCHANGED <<bank, engine, tuner, datadir>>

\* The detector keeps nothing between calls: each behaviour makes one call on
\* the detector it constructed.
DetectorReady ==
    detector.alive /\ detector.run.pc = "idle" /\ ret.op = "RegimeDetector"

\* RegimeDetector.detect_regime(data)
CallDetectRegime(data) ==
    /\ DetectorReady
    /\ ret' = Call("detect_regime", 0, "none",
                   [status |-> "ok", data |-> data,
                    value |-> DetectRegime(data, detector.config)])
    /\ UNCHANGED <<bank, others>>

\* RegimeDetector.detect_regime_changes(data) up to the for statement: the
\* early return, the sort, the window size, and range(...) which raises
\* ValueError when its step window_size // 2 is 0.
DetectRegimeChangesBegin(data) ==
    /\ DetectorReady
    /\ LET window_size == Min(detector.config.min_rounds_per_regime, Len(data) \div 4)
       IN  IF Len(data) < detector.config.min_rounds_per_regime
           THEN /\ ret' = Call("detect_regime_changes", 0, "none",
                               [status |-> "ok", data |-> data, value |-> <<>>])
                /\ UNCHANGED detector
           ELSE IF window_size \div 2 = 0
           THEN /\ ret' = Call("detect_regime_changes", 0, "none",
                               [status |-> "ValueError", data |-> data])
                /\ UNCHANGED detector
           ELSE /\ ret' = Call("detect_regime_changes:begin", 0, "none", Ok)
                /\ detector' = [detector EXCEPT !.run =
                       [pc |-> "loop", data |-> SortByStart(data),
                        window_size |-> window_size, i |-> 0,
                        current_regime |-> "None", regime_start |-> 0,
                        regimes |-> <<>>]]
    /\ UNCHANGED <<bank, engine, tuner, datadir>>

\* One iteration of the for statement of detect_regime_changes.
DetectRegimeChangesStep ==
    LET run == detector.run
        regime == DetectRegime(Rows(run.data, run.i, run.i + run.window_size),
                               detector.config)
    IN  /\ run.pc = "loop"
        /\ run.i < Len(run.data) - run.window_size + 1
        /\ detector' = [detector EXCEPT !.run =
               IF regime # run.current_regime
               THEN [run EXCEPT
                        !.regimes = IF run.current_regime # "None"
                                    THEN Append(@, RegimeInfoOf(run.current_regime, run.data,
                                                                run.regime_start, run.i))
                                    ELSE @,
                        !.current_regime = regime,
                        !.regime_start = run.i,
                        !.i = @ + run.window_size \div 2]
               ELSE [run EXCEPT !.i = @ + run.window_size \div 2]]
        /\ ret' = Call("detect_regime_changes:window", 0, "none",
                       [status |-> "ok", i |-> run.i, regime |-> regime])
        /\ UNCHANGED <<bank, engine, tuner, datadir>>

\* The end of detect_regime_changes: the final regime, and the return.
DetectRegimeChangesReturn ==
    LET run == detector.run
        regimes == IF run.current_regime # "None"
                   THEN Append(run.regimes,
                               RegimeInfoOf(run.current_regime, run.data,
                                            run.regime_start, Len(run.data)))
                   ELSE run.regimes
    IN  /\ run.pc = "loop"
        /\ ~(run.i < Len(run.data) - run.window_size + 1)
        /\ detector' = [detector EXCEPT !.run = [run EXCEPT !.pc = "done",
                                                             !.regimes = regimes]]
        /\ ret' = Call("detect_regime_changes", 0, "none",
                       [status |-> "ok", data |-> run.data, value |-> regimes])
        /\ UNCHANGED <<bank, engine, tuner, datadir>>

\* ThresholdTuner.__init__
ConstructTuner(f) ==
    /\ ~tuner.alive
    /\ tuner' = [tuner EXCEPT !.alive = TRUE, !.results = <<>>, !.pareto_optimal = <<>>,
                              !.ev_config = LoadConfig(f), !.sim = NoSim]
    /\ ret' = Call("ThresholdTuner", 0, "none", Ok)
    /\ UNCHANGED <<bank, engine, detector, datadir>>

\* ThresholdTuner.simulate_with_thresholds(features_df, cash_threshold,
\* sidebet_threshold) up to the loops: None when there is no live tick.
SimulateBegin(features_df, cash_threshold, sidebet_threshold) ==
    /\ tuner.alive
    /\ tuner.sim.pc = "idle"
    /\ ret.op = "ThresholdTuner"
    /\ LET rounds == LiveRounds(features_df)
       IN  IF rounds = <<>>
           THEN /\ ret' = Call("simulate_with_thresholds", 0, "none",
                               [status |-> "ok", value |-> "None"])
                /\ UNCHANGED tuner
           ELSE /\ ret' = Call("simulate_with_thresholds", 0, "none",
                               [status |-> "running"])
                /\ tuner' = [tuner EXCEPT !.sim =
                                [pc |-> "ticks", rounds |-> rounds, round |-> 1, tick |-> 1,
                                 cash_threshold |-> cash_threshold,
                                 sidebet_threshold |-> sidebet_threshold,
                                 current_bankroll |-> InitialBankroll,
                                 trades |-> <<>>, decided |-> <<>>]]
    /\ UNCHANGED <<bank, engine, detector, datadir>>

\* One tick of the simulation: the predictions, the decision of the EV
\* engine, the threshold rules, and the execution of the action.
SimulateTick ==
    LET sim == tuner.sim
        tick == sim.rounds[sim.round][sim.tick]
        p_rug_5s == PRug5s(tick)
        p_rug_10s == PRug10s(p_rug_5s)
        ev_result == BestAction(p_rug_5s, p_rug_10s, tick.x, sim.current_bankroll,
                                tuner.ev_config, tuner.ev_config)
        action == SimulatedAction(p_rug_5s, p_rug_10s, ev_result.action,
                                  sim.cash_threshold, sim.sidebet_threshold)
        profit == QSub(QMul(tick.x, QSub(One, <<2, 1000>>)), One)
        bankroll == IF action = "CASH" THEN QAdd(sim.current_bankroll, profit)
                    ELSE sim.current_bankroll
        trade == IF action = "CASH"
                 THEN <<[action |-> "CASH", x |-> tick.x, profit |-> profit,
                         bankroll |-> bankroll]>>
                 ELSE IF action = "ARM_SIDEBET" /\ RLt(Zero, MockStake)
                 THEN <<[action |-> "SIDEBET", stake |-> MockStake, x |-> tick.x]>>
                 ELSE <<>>
        next_round == action = "CASH" \/ sim.tick = Len(sim.rounds[sim.round])
        finished == next_round /\ sim.round = Len(sim.rounds)
    IN  /\ sim.pc = "ticks"
        /\ tuner' = [tuner EXCEPT !.sim =
               [sim EXCEPT !.pc = IF finished THEN "metrics" ELSE "ticks",
                           !.round = IF next_round THEN @ + 1 ELSE @,
                           !.tick = IF next_round THEN 1 ELSE @ + 1,
                           !.current_bankroll = bankroll,
                           !.trades = @ \o trade,
                           !.decided = [tick |-> tick, p_rug_5s |-> p_rug_5s,
                                        p_rug_10s |-> p_rug_10s,
                                        ev_action |-> ev_result.action,
                                        action |-> action]]]
        /\ UNCHANGED <<bank, engine, detector, datadir, ret>>

\* The metrics and the return of simulate_with_thresholds: None without trades.
SimulateReturn ==
    /\ tuner.sim.pc = "metrics"
    /\ ret' = Call("simulate_with_thresholds", 0, "none",
                   IF tuner.sim.trades = <<>> THEN [status |-> "ok", value |-> "None"]
                   ELSE [status |-> "ok", value |-> SimulationResult(tuner.sim)])
    /\ tuner' = [tuner EXCEPT !.sim.pc = "idle"]
    /\ UNCHANGED <<bank, engine, detector, datadir>>

\* ThresholdTuner.find_pareto_optimal(results), the first call on a tuner
CallFindParetoOptimal(results) ==
    /\ tuner.alive
    /\ ret.op = "ThresholdTuner"
    /\ ret' = Call("find_pareto_optimal", 0, "none",
                   [status |-> "ok", results |-> results,
                    value |-> FindParetoOptimal(results)])
    /\ UNCHANGED <<bank, others>>

\* ThresholdTuner.run_threshold_sweep(); swept is what the simulations of this
\* sweep returned for the pairs that traded, in the order of the grid.
RunThresholdSweep(swept) ==
    /\ tuner.alive
    /\ Len(tuner.results) + Len(swept) <= MaxResults
    /\ LET results == tuner.results \o swept
       IN  tuner' = [tuner EXCEPT !.results = results,
                                  !.pareto_optimal = FindParetoOptimal(results)]
    /\ ret' = Call("run_threshold_sweep", 0, "none", Ok)
    /\ UNCHANGED <<bank, engine, detector, datadir>>

\* run_threshold_sweep with no database at db_path: load_data raises.
RunThresholdSweepNoData ==
    /\ tuner.alive
    /\ ret' = Call("run_threshold_sweep", 0, "none", [status |-> "FileNotFoundError"])
    /\ UNCHANGED <<bank, others>>

\* ThresholdTuner.save_results(): the results file, then, with a frontier,
\* the thresholds into data/thresholds.json, whatever that path holds.
SaveResults ==
    /\ tuner.alive
    /\ tuner' = [tuner EXCEPT !.results_file = "written"]
    /\ IF tuner.pareto_optimal = <<>>
       THEN /\ ret' = Call("save_results", 0, "none", Ok)
            /\ UNCHANGED datadir
       ELSE IF ~Writable(datadir.fs, ActiveFile)
       THEN /\ ret' = Call("save_results", 0, "none", [status |-> "FileNotFoundError"])
            /\ UNCHANGED datadir
       ELSE /\ ret' = Call("save_results", 0, "none", Ok)
            /\ datadir' = [datadir EXCEPT !.fs =
                               WriteJson(@, ActiveFile,
                                         Thresholds(tuner.pareto_optimal, tuner.results))]
    /\ UNCHANGED <<bank, engine, detector>>

\* RegimeDetector.save_regime_thresholds(regime, thresholds); detected_at is
\* left out.
SaveRegimeThresholds(regime, thresholds) ==
    /\ detector.alive
    /\ datadir.pc = "idle"
    /\ datadir' = [datadir EXCEPT !.fs =
                       WriteJson(@, RegimeFile(regime), Put(thresholds, "regime", regime))]
    /\ ret' = Call("save_regime_thresholds", 0, "none", Ok)
    /\ UNCHANGED <<bank, engine, detector, tuner>>

\* RegimeDetector.create_regime_symlink(target_regime) up to the test of the
\* source file, which returns with a warning when the file is missing.
CreateRegimeSymlinkBegin(target_regime) ==
    /\ detector.alive
    /\ datadir.pc = "idle"
    /\ IF Exists(datadir.fs, RegimeFile(target_regime))
       THEN /\ datadir' = [datadir EXCEPT !.pc = "remove",
                                          !.target_regime = target_regime,
                                          !.aliased = TRUE]
            /\ ret' = Call("create_regime_symlink", 0, "none", [status |-> "running"])
       ELSE /\ ret' = Call("create_regime_symlink", 0, "none",
                           [status |-> "ok", value |-> "warning"])
            /\ UNCHANGED datadir
    /\ UNCHANGED <<bank, engine, detector, tuner>>

\* if os.path.exists(target_file): os.remove(target_file)
CreateRegimeSymlinkRemove ==
    /\ datadir.pc = "remove"
    /\ datadir' = [datadir EXCEPT
                      !.pc = "symlink",
                      !.fs = IF Exists(@, ActiveFile) THEN Without(@, {ActiveFile}) ELSE @]
    /\ UNCHANGED <<bank, engine, detector, tuner, ret>>

\* os.symlink(source_file, target_file): the link carries the text
\* "data/thresholds_{regime}.json"; OSError where the platform has no
\* symbolic links (supported = FALSE) and where the target path is taken.
CreateRegimeSymlinkLink(supported) ==
    /\ datadir.pc = "symlink"
    /\ IF supported /\ ~LExists(datadir.fs, ActiveFile)
       THEN /\ datadir' = [datadir EXCEPT
                              !.pc = "idle",
                              !.fs = Put(@, ActiveFile,
                                         [kind |-> "symlink",
                                          to |-> RegimeFile(datadir.target_regime)])]
            /\ ret' = Call("create_regime_symlink", 0, "none",
                           [status |-> "ok", value |-> "symlink"])
       ELSE /\ datadir' = [datadir EXCEPT !.pc = "copy"]
            /\ UNCHANGED ret
    /\ UNCHANGED <<bank, engine, detector, tuner>>

\* except OSError: shutil.copy2(source_file, target_file)
CreateRegimeSymlinkCopy ==
    /\ datadir.pc = "copy"
    /\ IF Writable(datadir.fs, ActiveFile)
       THEN /\ datadir' = [datadir EXCEPT
                              !.pc = "idle",
                              !.fs = WriteJson(@, ActiveFile,
                                               @[RegimeFile(datadir.target_regime)].rec)]
            /\ ret' = Call("create_regime_symlink", 0, "none",
                           [status |-> "ok", value |-> "copy"])
       ELSE /\ datadir' = [datadir EXCEPT !.pc = "idle"]
            /\ ret' = Call("create_regime_symlink", 0, "none",
                           [status |-> "FileNotFoundError"])
    /\ UNCHANGED <<bank, engine, detector, tuner>>

\* One manager on the file, every call completing its save.
Next ==
    \/ \E ib \in InitialBalances, pct \in MaxDailyLossPcts :
           Construct(1, ib, <<1, 2>>, pct, 5)
    \/ \E r \in Results : UpdateBalance(1, r, "ok")
    \/ \E e \in FewEdges, d \in FewOdds : SizeBet(1, e, d)
    \/ \E e \in FewEdges, d \in FewOdds : CalculateBetAmount(1, e, d)
    \/ ApplyDailyLossCap(1)
    \/ GetStatus(1)
    \/ ResetDailyTracking(1, "ok")
    \/ ResetBankroll(1, TRUE, 0, "ok")
    \/ \E nb \in NewBalances : ResetBankroll(1, FALSE, nb, "ok")
    \/ AdvanceDay

Spec == Init /\ [][Next]_vars

\* One manager on the file, with the failures of its saves.
NextFaults ==
    \/ Construct(1, 10, <<1, 2>>, 20, 5)
    \/ \E r \in FewResults, o \in SaveOutcomes : UpdateBalance(1, r, o)
    \/ \E o \in SaveOutcomes : ResetDailyTracking(1, o)
    \/ \E o \in SaveOutcomes : ResetBankroll(1, TRUE, 0, o)
    \/ AdvanceDay

SpecFaults == Init /\ [][NextFaults]_vars

\* One manager on a file that something else may leave malformed.
NextTamper ==
    \/ Construct(1, 10, <<1, 2>>, 20, 5)
    \/ \E r \in FewResults : UpdateBalance(1, r, "ok")
    \/ ApplyDailyLossCap(1)
    \/ GetStatus(1)
    \/ AdvanceDay
    \/ \E k \in {"garbage", "nondict"} : Tamper(k, {})
    \/ \E ms \in MissingFields : Tamper("record", ms)

SpecTamper == Init /\ [][NextTamper]_vars

\* size_bet and calculate_bet_amount over the configurations and the inputs.
NextSize ==
    \/ \E kf \in KellyFractions, cap \in BetSizeCaps : Construct(1, 10, kf, 20, cap)
    \/ \E e \in Edges, d \in Odds : SizeBet(1, e, d)
    \/ \E e \in Edges, d \in Odds : CalculateBetAmount(1, e, d)

SpecSize == Init /\ [][NextSize]_vars

\* Two managers constructed on the same file, each once, nothing serializing
\* their calls; a save either completes or fails before it writes.
NextTwo ==
    \/ \E m \in Managers : ~mgr[m].alive /\ Construct(m, 10, <<1, 2>>, 20, 5)
    \/ \E m \in Managers, r \in FewResults, o \in {"ok", "makedirs_error"} :
           UpdateBalance(m, r, o)
    \/ \E m \in Managers : GetStatus(m)

SpecTwo == Init /\ [][NextTwo]_vars

\* An EVEngine on each configuration file, and one call of each method over
\* the inputs.
NextEV ==
    \/ \E f \in EVConfigFiles : ConstructEngine(f)
    \/ \E p \in Probabilities : CallClampProbability(p)
    \/ \E p \in Probabilities, x \in Multipliers, a \in CfgArgs : CallEvCashHold(p, x, a)
    \/ \E x \in Multipliers, a \in CfgArgs : CallEvCashNow(x, a)
    \/ \E p \in Probabilities, b \in Bankrolls, a \in CfgArgs : CallEvSidebet(p, b, a)
    \/ \E p5 \in Probabilities, p10 \in FewProbabilities, x \in Multipliers,
          b \in Bankrolls, a \in CfgArgs : CallBestAction(p5, p10, x, b, a)
    \/ \E p5 \in FewProbabilities, p10 \in FewProbabilities, x \in Multipliers,
          a \in CfgArgs : CallGetAllEvs(p5, p10, x, <<100, 1>>, a)

SpecEV == Init /\ [][NextEV]_vars

\* best_action on the balance of an overdrawn bankroll (update_balance lets
\* a loss take the balance below 0).
Overdrawn == {<<-100, 1>>, <<-200, 1>>}
NextOverdrawn ==
    \/ \E f \in EVConfigFiles : ConstructEngine(f)
    \/ \E p5 \in Probabilities, p10 \in FewProbabilities, x \in Multipliers,
          b \in Overdrawn \cup {Zero}, a \in CfgArgs : CallBestAction(p5, p10, x, b, a)

SpecOverdrawn == Init /\ [][NextOverdrawn]_vars

\* A RegimeDetector on each configuration file: detect_regime over short
\* windows of every kind of round, detect_regime_changes over the histories of
\* calm and hot rounds.
NextRegime ==
    \/ \E f \in RegimeConfigFiles : ConstructDetector(f)
    \/ \E d \in Histories(Levels, ShortLengths) : CallDetectRegime(d)
    \/ \E d \in Histories(FewLevels, 0..MaxRounds) : DetectRegimeChangesBegin(d)
    \/ DetectRegimeChangesStep
    \/ DetectRegimeChangesReturn

SpecRegime == Init /\ [][NextRegime]_vars

\* A ThresholdTuner: find_pareto_optimal over the lists of results, sweeps
\* that add their results to self.results, and save_results.
NextTuner ==
    \/ ConstructTuner([kind |-> "absent", fields |-> EmptyDict])
    \/ \E rs \in ResultLists(0..MaxResults) : CallFindParetoOptimal(rs)
    \/ \E rs \in ResultLists(0..MaxResults) : RunThresholdSweep(rs)
    \/ RunThresholdSweepNoData
    \/ SaveResults

SpecTuner == Init /\ [][NextTuner]_vars

\* The files config/ev.json may hold for the simulations: none, and a sidebet
\* paying twice the stake.
SimulationConfigFiles ==
    {[kind |-> "absent", fields |-> EmptyDict],
     [kind |-> "object", fields |-> [k \in {"sidebet_payout"} |-> <<2, 1>>]]}

\* One simulation on a tuner, over the features and the corner pairs.
NextSimulate ==
    \/ \E f \in SimulationConfigFiles : ConstructTuner(f)
    \/ \E features_df \in Features, pair \in SimulatedPairs :
           SimulateBegin(features_df, pair.cash_threshold, pair.sidebet_threshold)
    \/ SimulateTick
    \/ SimulateReturn

SpecSimulate == Init /\ [][NextSimulate]_vars

\* One manager with the default 20% cap, losing and then winning on one day.
BreakerResults == {-3, 10}
NextBreaker ==
    \/ Construct(1, 10, <<1, 2>>, 20, 5)
    \/ \E r \in BreakerResults : UpdateBalance(1, r, "ok")
    \/ ApplyDailyLossCap(1)
    \/ ResetDailyTracking(1, "ok")
    \/ ResetBankroll(1, TRUE, 0, "ok")
    \/ AdvanceDay

SpecBreaker == Init /\ [][NextBreaker]_vars

\* What a sweep returns on data that trades for the first pair of the grid only.
OnePairTraded ==
    <<SweepResult(1, [total_return |-> <<1, 10>>, sharpe_ratio |-> <<1, 2>>,
                      max_drawdown |-> <<1, 10>>])>>

\* The detector and the tuner publishing thresholds into data/: the regime
\* files main() of regime.py saves, the active file, a sweep and its
\* save_results at any point of a create_regime_symlink.
NextPublish ==
    \/ ConstructDetector([kind |-> "absent", fields |-> EmptyDict])
    \/ ConstructTuner([kind |-> "absent", fields |-> EmptyDict])
    \/ \E r \in Regimes : SaveRegimeThresholds(r, DefaultThresholds(r))
    \/ \E r \in Regimes : CreateRegimeSymlinkBegin(r)
    \/ CreateRegimeSymlinkRemove
    \/ \E supported \in BOOLEAN : CreateRegimeSymlinkLink(supported)
    \/ CreateRegimeSymlinkCopy
    \/ RunThresholdSweep(OnePairTraded)
    \/ SaveResults

SpecPublish == Init /\ [][NextPublish]_vars

\* ------------------------------------------------------------- claims
Returned(op) == ret.op = op /\ ret.out.status = "ok"

\* C1: from a freshly created bankroll state, or one reset_bankroll produced,
\* after every update_balance call of any sequence with signed results,
\* wins + losses = total_bets and min_balance <= balance <= max_balance.
C1_TalliesAndExtrema ==
    \A m \in Managers :
        (mgr[m].alive /\ mgr[m].origin = "fresh") =>
            LET st == mgr[m].state IN
            /\ st["wins"] + st["losses"] = st["total_bets"]
            /\ st["min_balance"] <= st["balance"]
            /\ st["balance"] <= st["max_balance"]

C1_Witness ==
    /\ ret.op = "update_balance"
    /\ mgr[1].alive /\ mgr[1].origin = "fresh"
    /\ LET st == mgr[1].state IN
       /\ st["wins"] >= 1 /\ st["losses"] >= 1
       /\ st["min_balance"] < st["balance"]
       /\ st["balance"] < st["max_balance"]

\* C2 as stated: apply_daily_loss_cap returns true iff balance > 0 and
\* daily_loss / balance < max_daily_loss_pct.
C2_Original ==
    ret.op = "apply_daily_loss_cap" =>
        LET st == mgr[ret.m].state IN
        (ret.out.status = "ok" /\ ret.out.value)
            <=> /\ Has(st, "balance") /\ Has(st, "daily_loss")
                /\ st["balance"] > 0
                /\ st["daily_loss"] < mgr[ret.m].max_daily_loss_pct * st["balance"]

\* C2 as amended: apply_daily_loss_cap returns true iff the state holds a
\* balance > 0 and (daily_loss / balance) * 100 < max_daily_loss_pct: the daily
\* loss as a percentage of the balance is what is compared with the cap.
C2_PercentageBelowCap ==
    ret.op = "apply_daily_loss_cap" =>
        LET st == mgr[ret.m].state IN
        (ret.out.status = "ok" /\ ret.out.value)
            <=> /\ Has(st, "balance") /\ Has(st, "daily_loss")
                /\ st["balance"] > 0
                /\ st["daily_loss"] * 100
                       < mgr[ret.m].max_daily_loss_pct * st["balance"]

\* A loss is on the books, below the cap as a percentage: the call says true.
C2_Witness ==
    /\ Returned("apply_daily_loss_cap")
    /\ ret.out.value
    /\ mgr[1].state["daily_loss"] > 0

\* C3 as stated: the first access of a new day (update_balance,
\* apply_daily_loss_cap, get_status) by a manager constructed on an earlier day
\* leaves daily_loss holding nothing of the earlier day.
C3_Original ==
    \A m \in Managers :
        (/\ mgr[m].alive
         /\ ret.m = m
         /\ mgr[m].state["last_date"] # today)
        => /\ (Returned("apply_daily_loss_cap") \/ Returned("get_status"))
                  => mgr[m].state["daily_loss"] = 0
           /\ Returned("update_balance")
                  => mgr[m].state["daily_loss"] <= Abs(ret.out.profit)

\* C3 as amended: daily_loss resets to 0 when the manager is constructed on a
\* date other than the persisted last date (and last_date becomes that date);
\* a manager already constructed keeps its daily_loss over a date change until
\* reset_daily_tracking or reset_bankroll is called.
C3_ResetOnLoad ==
    (/\ ret.op = "construct"
     /\ file.kind = "record"
     /\ file.rec["last_date"] # today)
    => /\ mgr[ret.m].state["daily_loss"] = 0
       /\ mgr[ret.m].state["last_date"] = today

C3_Witness ==
    /\ ret.op = "construct"
    /\ file.kind = "record"
    /\ file.rec["last_date"] < today
    /\ file.rec["daily_loss"] > 0
    /\ mgr[1].state["daily_loss"] = 0

\* C4: size_bet(edge, odds) is 0 whenever edge <= 0 or edge >= 1 or odds <= 1,
\* and for every other input, a negative raw Kelly fraction included, it is
\* >= 0 and <= bet_size_cap.
C4_SizeBetRange ==
    ret.op = "size_bet" =>
        LET v == ret.out.value
            e == ret.out.edge
            o == ret.out.odds
        IN  /\ (RLe(e, Zero) \/ RLe(<<1, 1>>, e) \/ RLe(o, <<1, 1>>)) => REq(v, Zero)
            /\ Den(v) > 0
            /\ RLe(Zero, v)
            /\ RLe(v, mgr[ret.m].bet_size_cap)

\* A stake strictly inside the range: the Kelly fraction itself, uncapped.
C4_Witness ==
    /\ ret.op = "size_bet"
    /\ RLt(Zero, ret.out.value)
    /\ RLt(ret.out.value, mgr[1].bet_size_cap)

\* C5: a process that stops inside _save_state leaves the persisted record
\* either the complete new state or the complete prior state, never an empty
\* or partial record: a record that was there is a record still.
C5_SaveIsAtomic ==
    [][(Crashed(ret'.save) /\ file.kind = "record")
           => (file' = file \/ file'.kind = "record")]_vars

\* C6: a malformed persisted record (unparseable, of the wrong shape, or an
\* object missing BankrollState fields) makes the constructor use a fresh
\* default state, and no later update_balance, apply_daily_loss_cap or
\* get_status fails on a missing field.
Malformed(f) ==
    \/ f.kind \in {"empty", "partial", "garbage", "nondict"}
    \/ f.kind = "record" /\ DOMAIN f.rec # Keys
C6_MalformedGivesFresh ==
    /\ (ret.op = "construct" /\ Malformed(file))
           => mgr[ret.m].state = NewState(mgr[ret.m].initial_balance, today)
    /\ ret.op \in {"update_balance", "apply_daily_loss_cap", "get_status"}
           => ret.out.status # "KeyError"

Mutators == {"update_balance", "reset_daily_tracking", "reset_bankroll"}

\* C7 as stated: a manager constructed on the file on the date of the save
\* holds the balance, total_bets, wins, losses and daily_loss that were saved.
C7_Original ==
    /\ (ret.op \in Mutators /\ ret.save = "ok") => file = Dump(mgr[ret.m].state)
    /\ (/\ ret.op = "construct"
        /\ file.kind = "record"
        /\ file.rec["last_updated"] = today)
       => \A k \in {"balance", "total_bets", "wins", "losses", "daily_loss"} :
              mgr[ret.m].state[k] = file.rec[k]

\* C7 as amended: after an update_balance or reset whose save succeeds the
\* file holds the in-memory state, and a manager then constructed on the file
\* holds the same balance, total_bets, wins and losses, and the same daily_loss
\* when the saved last_date is the date of the construction; a state saved
\* after its last_date has passed reloads with daily_loss 0, on the date of the
\* save too.
C7_RoundTrip ==
    /\ (ret.op \in Mutators /\ ret.save = "ok") => file = Dump(mgr[ret.m].state)
    /\ (ret.op = "construct" /\ file.kind = "record")
       => /\ \A k \in {"balance", "total_bets", "wins", "losses"} :
                 mgr[ret.m].state[k] = file.rec[k]
          /\ mgr[ret.m].state["daily_loss"] =
                 IF file.rec["last_date"] = today THEN file.rec["daily_loss"] ELSE 0

C7_Witness ==
    /\ ret.op = "construct"
    /\ file.kind = "record"
    /\ file.rec["last_date"] = today
    /\ file.rec["total_bets"] >= 2
    /\ file.rec["daily_loss"] > 0
    /\ mgr[1].state["daily_loss"] = file.rec["daily_loss"]
    /\ mgr[1].state["balance"] = file.rec["balance"]

\* C8: no ratio computed against a balance raises a division error: each is
\* short-circuited when the balance in its denominator is zero.
C8_NoDivisionError ==
    ret.op \in {"update_balance", "get_status", "apply_daily_loss_cap"}
        => ret.out.status # "ZeroDivisionError"

ReadOnlyOps == {"size_bet", "calculate_bet_amount", "apply_daily_loss_cap", "get_status"}
TrackedKeys == {"balance", "total_bets", "wins", "losses", "total_profit",
                "daily_loss", "max_balance", "min_balance"}

\* C9: size_bet, calculate_bet_amount, apply_daily_loss_cap and get_status
\* leave the in-memory state and the persisted record as they were, and a
\* manager's balance, counts, total_profit, daily_loss and extrema change only
\* in update_balance, in an explicit reset or when the manager is constructed.
C9_Frame ==
    [][/\ ret'.op \in ReadOnlyOps => (mgr' = mgr /\ file' = file)
       /\ \A m \in Managers :
            (/\ mgr[m].alive /\ mgr'[m].alive
             /\ \E k \in TrackedKeys : mgr'[m].state[k] # mgr[m].state[k])
            => /\ ret'.m = m
               /\ ret'.op \in Mutators \cup {"construct"}]_vars

\* A read-only call made on a bankroll with a history and a file.
C9_Witness ==
    /\ ret.op \in ReadOnlyOps
    /\ mgr[1].state["total_bets"] >= 1
    /\ mgr[1].state["last_date"] # today
    /\ file.kind = "record"

Sole(m) == mgr[m].alive /\ \A o \in Managers \ {m} : ~mgr[o].alive

DefaultBestAction(p5, x) ==
    /\ Returned("best_action")
    /\ engine.config = DefaultEVConfig
    /\ ret.out.cfg = "None"
    /\ ret.out.p5 = p5
    /\ ret.out.x = x

\* bankroll * 0.01 * ((5 - 1) * (1 - 0.02) * p - (1 - p)), p the clamped p10:
\* the sidebet EV of the default configuration, 0.01 * bankroll * (4.92 p - 1).
DefaultSidebetEV(p10, bankroll) ==
    LET p == QMin(QMax(p10, <<1, 1000000>>), <<999999, 1000000>>)
    IN  QMul(QMul(bankroll, <<1, 100>>), QSub(QMul(<<123, 25>>, p), One))

\* C11 as stated: with the default EVConfig, best_action with p5 = 0.1 and
\* x = 2.0 returns HOLD for every p10 in [0,1] and every bankroll >= 0.
C11_Original ==
    DefaultBestAction(<<1, 10>>, <<2, 1>>) => ret.out.action = "HOLD"

\* C11: with the default EVConfig, p5 = 0.1 and x = 2.0, HOLD's relative EV is
\* 0.176 and best_action never returns CASH; it returns HOLD exactly when the
\* sidebet EV 0.01 * bankroll * (4.92 * p10 - 1) does not exceed 0.176, and
\* ARM_SIDEBET otherwise.
C11_HoldUnlessSidebetHigher ==
    DefaultBestAction(<<1, 10>>, <<2, 1>>) =>
        /\ ret.out.evs["HOLD"] = <<22, 125>>
        /\ ret.out.action =
               IF QLt(<<22, 125>>, DefaultSidebetEV(ret.out.p10, ret.out.bankroll))
               THEN "ARM_SIDEBET" ELSE "HOLD"

\* HOLD returned although the sidebet was among the candidates.
C11_Witness ==
    /\ DefaultBestAction(<<1, 10>>, <<2, 1>>)
    /\ ret.out.action = "HOLD"
    /\ "ARM_SIDEBET" \in DOMAIN ret.out.evs

BestEV(evs) ==
    LET b == CHOOSE n \in DOMAIN evs : \A m \in DOMAIN evs : QLe(evs[m], evs[n])
    IN  evs[b]
SecondEV(evs) ==
    LET b == CHOOSE n \in DOMAIN evs : \A m \in DOMAIN evs : QLe(evs[m], evs[n])
        rest == DOMAIN evs \ {b}
        c == CHOOSE n \in rest : \A m \in rest : QLe(evs[m], evs[n])
    IN  evs[c]

\* C13: the confidence best_action returns is
\* clamp(0.5 + 10 * (best - second), 0.05, 0.95), best and second the highest
\* and second-highest relative EVs among the proposed candidates, and so lies
\* in [0.05, 0.95].
C13_Confidence ==
    Returned("best_action") =>
        LET margin == QSub(BestEV(ret.out.evs), SecondEV(ret.out.evs))
            raw == QAdd(<<1, 2>>, QMul(<<10, 1>>, margin))
        IN  /\ ret.out.confidence =
                   (IF QLt(raw, <<1, 20>>) THEN <<1, 20>>
                    ELSE IF QLt(<<19, 20>>, raw) THEN <<19, 20>> ELSE raw)
            /\ QLe(<<1, 20>>, ret.out.confidence)
            /\ QLe(ret.out.confidence, <<19, 20>>)

\* A confidence strictly inside the bounds, with three candidates ranked.
C13_Witness ==
    /\ Returned("best_action")
    /\ "ARM_SIDEBET" \in DOMAIN ret.out.evs
    /\ QLt(<<1, 20>>, ret.out.confidence)
    /\ QLt(ret.out.confidence, <<19, 20>>)

\* C14: with bankroll = 0 the sidebet stake is 0 and its EV is exactly 0, and
\* for every p5, p10 and x best_action returns HOLD or CASH, never ARM_SIDEBET.
C14_NoSidebetOnEmptyBankroll ==
    /\ (Returned("ev_sidebet") /\ ret.out.stake = Zero) => ret.out.value = Zero
    /\ (Returned("best_action") /\ ret.out.bankroll = Zero) =>
           /\ ret.out.action \in {"HOLD", "CASH"}
           /\ "ARM_SIDEBET" \in DOMAIN ret.out.evs => ret.out.evs["ARM_SIDEBET"] = Zero

\* The sidebet proposed at EV 0 (an ev_threshold below 0), tying CASH above a
\* negative HOLD, and CASH returned.
C14_Witness ==
    /\ Returned("best_action")
    /\ ret.out.bankroll = Zero
    /\ "ARM_SIDEBET" \in DOMAIN ret.out.evs
    /\ QLt(ret.out.evs["HOLD"], Zero)
    /\ ret.out.action = "CASH"

\* The cfg a call read: self.config when the argument was None.
CfgRead == IF ret.out.cfg = "None" THEN engine.config ELSE TestEVConfig

C16_ClampRange ==
    Returned("_clamp_probability") =>
        LET lo == engine.config.min_probability
            hi == engine.config.max_probability
        IN  /\ QLe(lo, ret.out.value) /\ QLe(ret.out.value, hi)
            /\ (QLe(lo, ret.out.p) /\ QLe(ret.out.p, hi)) => ret.out.value = ret.out.p
            /\ ClampProbability(ret.out.value, engine.config) = ret.out.value

\* An input above the range brought down to max_probability.
C16_Witness ==
    /\ Returned("_clamp_probability")
    /\ ret.out.p = <<5, 1>>
    /\ ret.out.value = engine.config.max_probability

\* ---------------------------------------------- claims: RegimeDetector
\* C17: detect_regime returns normal for a window of fewer than
\* min_rounds_per_regime rows whatever its statistics; otherwise low_vol iff
\* the mean volatility is strictly below vol_low_threshold and the mean slope
\* magnitude strictly below slope_low_threshold, else high_vol iff the mean
\* volatility strictly exceeds vol_high_threshold or the mean slope magnitude
\* strictly exceeds slope_high_threshold, else normal.
C17_DetectRegime ==
    Returned("detect_regime") =>
        LET d == ret.out.data
            c == detector.config
            n == <<Len(d), 1>>
            vol == SumOf(d, "volatility")
            slope == SumOf(d, "slope_magnitude")
        IN  ret.out.value =
                (IF Len(d) < c.min_rounds_per_regime THEN "normal"
                 ELSE IF QLt(vol, QMul(c.vol_low_threshold, n))
                         /\ QLt(slope, QMul(c.slope_low_threshold, n)) THEN "low_vol"
                 ELSE IF QLt(QMul(c.vol_high_threshold, n), vol)
                         \/ QLt(QMul(c.slope_high_threshold, n), slope) THEN "high_vol"
                 ELSE "normal")

\* high_vol returned for a window whose volatility is below the low threshold:
\* its slope magnitude alone exceeds the high threshold.
C17_Witness ==
    /\ Returned("detect_regime")
    /\ ret.out.value = "high_vol"
    /\ \A k \in 1..Len(ret.out.data) :
           QLt(ret.out.data[k].volatility, detector.config.vol_low_threshold)

\* C18: for a history of at least min_rounds_per_regime rounds,
\* detect_regime_changes closes the tracked segment under its label whenever
\* a window's label differs from it, starts the new segment at that window,
\* and emits the last open segment at the end: the list it returns is not
\* empty and consecutive segments carry different labels.
C18_SegmentsEmitted ==
    (ret.op = "detect_regime_changes"
     /\ Len(ret.out.data) >= detector.config.min_rounds_per_regime) =>
        /\ ret.out.status = "ok"
        /\ ret.out.value # <<>>
        /\ ret.out.value[1].start_round = 1
        /\ \A k \in 1..(Len(ret.out.value) - 1) :
               ret.out.value[k].regime # ret.out.value[k + 1].regime

\* ---------------------------------------------- claims: ThresholdTuner
\* b is at least as good as a on total_return, sharpe_ratio and max_drawdown
\* (less is better), and strictly better on one of them.
Better(b, a) ==
    /\ QLe(a.total_return, b.total_return)
    /\ QLe(a.sharpe_ratio, b.sharpe_ratio)
    /\ QLe(b.max_drawdown, a.max_drawdown)
    /\ ~(a.total_return = b.total_return /\ a.sharpe_ratio = b.sharpe_ratio
         /\ a.max_drawdown = b.max_drawdown)
Count(seq, r) == Cardinality({i \in 1..Len(seq) : seq[i] = r})
Entries(seq) == {seq[i] : i \in 1..Len(seq)}

\* frontier holds every result of results that no result is better than, as
\* often as results holds it, and nothing else.
IsFrontierOf(frontier, results) ==
    /\ \A r \in Entries(results) \cup Entries(frontier) :
           Count(frontier, r) = IF \E o \in Entries(results) : Better(o, r) THEN 0
                                ELSE Count(results, r)
    /\ \A a \in Entries(frontier), b \in Entries(frontier) : ~Better(b, a)

\* C19: for any list of sweep results find_pareto_optimal returns exactly the
\* results no other result dominates; the frontier never holds two results of
\* which one dominates the other, and results equal on all three objectives
\* are all retained.
C19_ParetoFrontier ==
    /\ Returned("find_pareto_optimal") => IsFrontierOf(ret.out.value, ret.out.results)
    /\ IsFrontierOf(tuner.pareto_optimal, tuner.results)

\* Three results: two equal on the three objectives and both kept, the third
\* dominated and dropped.
C19_Witness ==
    /\ Returned("find_pareto_optimal")
    /\ Len(ret.out.results) = 3
    /\ Len(ret.out.value) = 2
    /\ ret.out.value[1] # ret.out.value[2]
    /\ ret.out.value[1].total_return = ret.out.value[2].total_return
    /\ ret.out.value[1].sharpe_ratio = ret.out.value[2].sharpe_ratio
    /\ ret.out.value[1].max_drawdown = ret.out.value[2].max_drawdown

SharpeDescending(seq) ==
    \A k \in 1..(Len(seq) - 1) : QLe(seq[k + 1].sharpe_ratio, seq[k].sharpe_ratio)

\* C20: the frontier is sorted by Sharpe ratio descending, and the operating
\* point save_results publishes is an entry of the frontier that no entry of
\* the frontier exceeds in Sharpe ratio.
C20_PublishedIsTopSharpe ==
    /\ Returned("find_pareto_optimal") => SharpeDescending(ret.out.value)
    /\ SharpeDescending(tuner.pareto_optimal)
    /\ (Returned("save_results") /\ tuner.pareto_optimal # <<>>) =>
           /\ LExists(datadir.fs, ActiveFile)
           /\ datadir.fs[ActiveFile].kind = "record"
           /\ \E e \in Entries(tuner.pareto_optimal) :
                  /\ datadir.fs[ActiveFile].rec.cash_if_p5_gt = Round(e.cash_threshold, 3)
                  /\ datadir.fs[ActiveFile].rec.sidebet_if_p10_gt =
                         Round(e.sidebet_threshold, 3)
                  /\ datadir.fs[ActiveFile].rec.metrics.sharpe_ratio =
                         Round(e.sharpe_ratio, 4)
                  /\ \A f \in Entries(tuner.pareto_optimal) :
                         QLe(f.sharpe_ratio, e.sharpe_ratio)

\* A frontier of two Sharpe ratios published, the first result of the sweep
\* not being the one of the higher ratio.
C20_Witness ==
    /\ Returned("save_results")
    /\ Len(tuner.pareto_optimal) >= 2
    /\ QLt(tuner.results[1].sharpe_ratio, tuner.pareto_optimal[1].sharpe_ratio)
    /\ tuner.results[1] \in Entries(tuner.pareto_optimal)

PairOf(r) == <<r.cash_threshold, r.sidebet_threshold>>
OnePerPair(seq) == \A i \in 1..Len(seq), j \in 1..Len(seq) : i # j => PairOf(seq[i]) # PairOf(seq[j])

\* C21: after every run_threshold_sweep on a tuner, a second or later one on
\* the same tuner included, the result set and the frontier hold at most one
\* result per (cash_threshold, sidebet_threshold) pair, nothing of an earlier
\* sweep being carried over.
C21_FreshEverySweep ==
    (Returned("run_threshold_sweep") /\ ret.out.status = "ok") =>
        /\ OnePerPair(tuner.results)
        /\ OnePerPair(tuner.pareto_optimal)

\* C22: a sweep whose simulations yield no trades for any pair ends with an
\* empty result set and an empty frontier, and the save_results that follows
\* an empty result set writes no threshold record.
C22_EmptySweepPublishesNothing ==
    [][/\ RunThresholdSweep(<<>>) => (tuner'.results = <<>> /\ tuner'.pareto_optimal = <<>>)
       /\ (SaveResults /\ tuner.results = <<>>) => datadir' = datadir]_vars

\* The record reading data/thresholds.json yields.
ActiveRecord == datadir.fs[Resolve(datadir.fs, ActiveFile)].rec
ActiveRefersTo(r) ==
    /\ Exists(datadir.fs, ActiveFile)
    /\ LExists(datadir.fs, RegimeFile(r))
    /\ ActiveRecord = datadir.fs[RegimeFile(r)].rec
    /\ ActiveRecord.regime = r

\* C23: from the start of a create_regime_symlink that found its source file,
\* at every point during and after it and after any later publication of the
\* tuner, data/thresholds.json exists and reads as the record of exactly one
\* regime; and the operating point save_results publishes is the record of a
\* regime.
C23_ActiveAliasOneRegime ==
    /\ datadir.aliased => \E r \in Regimes : ActiveRefersTo(r)
    /\ (Returned("save_results") /\ tuner.pareto_optimal # <<>>) =>
           \E r \in Regimes :
               /\ LExists(datadir.fs, RegimeFile(r))
               /\ datadir.fs[RegimeFile(r)].rec.cash_if_p5_gt =
                      Round(tuner.pareto_optimal[1].cash_threshold, 3)
               /\ datadir.fs[RegimeFile(r)].rec.rounds_used = Len(tuner.results)

\* The highest relative EV among the candidates of the best_action returned.
TopEV ==
    LET evs == ret.out.evs
        hc == QMax(evs["HOLD"], evs["CASH"])
    IN  IF "ARM_SIDEBET" \in DOMAIN evs THEN QMax(hc, evs["ARM_SIDEBET"]) ELSE hc

\* C24: best_action returns a candidate of the highest relative EV, and among
\* candidates tied at the highest it returns the first of HOLD, CASH,
\* ARM_SIDEBET: HOLD at relative EV 0 wins over CASH, and a sidebet whose EV
\* equals the best of HOLD and CASH is not chosen over it.
C24_TiesByInsertionOrder ==
    Returned("best_action") =>
        ret.out.action = IF ret.out.evs["HOLD"] = TopEV THEN "HOLD"
                         ELSE IF ret.out.evs["CASH"] = TopEV THEN "CASH"
                         ELSE "ARM_SIDEBET"

\* HOLD, CASH and a proposed sidebet all at relative EV 0 (x = 0 with a safety
\* floor of 0, an empty bankroll, an ev_threshold below 0): HOLD returned.
C24_Witness ==
    /\ Returned("best_action")
    /\ ret.out.evs["HOLD"] = Zero
    /\ "ARM_SIDEBET" \in DOMAIN ret.out.evs
    /\ ret.out.evs["ARM_SIDEBET"] = Zero
    /\ ret.out.action = "HOLD"

\* The tick the simulation decided last, and what best_action returns for it.
Decided == tuner.sim.decided
DecidedEV ==
    BestAction(Decided.p_rug_5s, Decided.p_rug_10s, Decided.tick.x,
               tuner.sim.current_bankroll, tuner.ev_config, tuner.ev_config)

\* C25: for every live tick simulate_with_thresholds decides CASH exactly when
\* p_rug_5s > cash_threshold, whatever the sidebet conditions; otherwise
\* ARM_SIDEBET exactly when p_rug_10s > sidebet_threshold and best_action
\* returns ARM_SIDEBET for the tick; otherwise HOLD.
C25_DoubleGate ==
    Decided # <<>> =>
        /\ Decided.tick.phase = "live"
        /\ Decided.action \in {"CASH", "ARM_SIDEBET", "HOLD"}
        /\ Decided.action = "CASH" <=> QLt(tuner.sim.cash_threshold, Decided.p_rug_5s)
        /\ Decided.action = "ARM_SIDEBET" <=>
               /\ ~QLt(tuner.sim.cash_threshold, Decided.p_rug_5s)
               /\ QLt(tuner.sim.sidebet_threshold, Decided.p_rug_10s)
               /\ DecidedEV.action = "ARM_SIDEBET"

\* A tick whose p_rug_10s is above the sidebet threshold while best_action
\* does not return ARM_SIDEBET: the simulation holds.
C25_Witness ==
    /\ Decided # <<>>
    /\ QLt(tuner.sim.sidebet_threshold, Decided.p_rug_10s)
    /\ DecidedEV.action # "ARM_SIDEBET"
    /\ Decided.action = "HOLD"

\* C26: once apply_daily_loss_cap has returned false, an update_balance that
\* follows, a win or a loss, leaves it returning false: no update_balance
\* closes the breaker again.
C26_StickyBreaker ==
    [][(/\ Returned("apply_daily_loss_cap")
        /\ ret.out.value = FALSE
        /\ ret'.op = "update_balance"
        /\ ret'.out.status = "ok"
        /\ ret'.m = ret.m) =>
           DailyLossCap(mgr'[ret.m].state, mgr'[ret.m].max_daily_loss_pct).value = FALSE]_vars

\* What get_status reports for the manager of the last call.
StatusNow == StatusValue(mgr[ret.m].state, mgr[ret.m].max_daily_loss_pct)

\* C27: immediately after any update_balance, the total_roi it returned equals
\* the total_roi get_status reports, also when the state was loaded from a
\* file created with another initial balance or re-anchored by reset_bankroll.
C27_SameTotalRoi ==
    (Returned("update_balance") /\ StatusNow.status = "ok") =>
        REq(ret.out.total_roi, StatusNow.total_roi)

RECURSIVE RoundCounts(_)
RoundCounts(regimes) ==
    IF regimes = <<>> THEN 0
    ELSE regimes[1].round_count + RoundCounts(SubSeq(regimes, 2, Len(regimes)))

\* regimes partitions a history of n rounds whose ids are 1..n in the order of
\* started_at: the first segment starts at the first round, each next segment
\* at the round after the previous segment's last, the last segment ends at
\* the last round, every segment holds a round, and the counts sum to n.
Partitions(regimes, n) ==
    /\ regimes # <<>> => /\ regimes[1].start_round = 1
                         /\ regimes[Len(regimes)].end_round = n
    /\ \A k \in 1..(Len(regimes) - 1) :
           regimes[k + 1].start_round = regimes[k].end_round + 1
    /\ \A k \in 1..Len(regimes) :
           /\ regimes[k].round_count >= 1
           /\ regimes[k].round_count = regimes[k].end_round - regimes[k].start_round + 1
    /\ RoundCounts(regimes) = n

\* C28 as stated: the segments any detect_regime_changes returns partition
\* the history.
C28_Original ==
    Returned("detect_regime_changes") => Partitions(ret.out.value, Len(ret.out.data))

\* C28: the segments detect_regime_changes returns for a history of at least
\* min_rounds_per_regime rounds partition the sorted history; for a shorter
\* history it returns no segment at all.
C28_SegmentsPartition ==
    Returned("detect_regime_changes") =>
        IF Len(ret.out.data) >= detector.config.min_rounds_per_regime
        THEN ret.out.value # <<>> /\ Partitions(ret.out.value, Len(ret.out.data))
        ELSE ret.out.value = <<>>

\* Three segments returned, the second longer than one round.
C28_Witness ==
    /\ Returned("detect_regime_changes")
    /\ Len(ret.out.value) = 3
    /\ ret.out.value[2].round_count > 1
    /\ Partitions(ret.out.value, Len(ret.out.data))

\* C29: for every history of at least min_rounds_per_regime rounds
\* detect_regime_changes raises nothing, and every window it passes to
\* detect_regime holds at least min_rounds_per_regime rows.
C29_WindowsLargeEnough ==
    /\ (ret.op = "detect_regime_changes"
        /\ Len(ret.out.data) >= detector.config.min_rounds_per_regime) =>
           ret.out.status = "ok"
    /\ ret.op = "detect_regime_changes:window" =>
           Len(Rows(detector.run.data, ret.out.i, ret.out.i + detector.run.window_size))
               >= detector.config.min_rounds_per_regime

\* C30: for every p5, p10 and x, best_action on a bankroll of 0 or less
\* returns HOLD or CASH, never ARM_SIDEBET.
C30_NoSidebetWhenOverdrawn ==
    (Returned("best_action") /\ QLe(ret.out.bankroll, Zero)) =>
        ret.out.action \in {"HOLD", "CASH"}
====
